---------------------------- MODULE Spec2Model ----------------------------
(***************************************************************************)
(* Pulse-propagation network of src/bin/20.rs: the module graph, the       *)
(* press loop of press_button_times, the cycle search                      *)
(* find_lcm_of_signals_to_destinations and part_two.                       *)
(*                                                                         *)
(* A ModuleName is a string ("broadcaster" is ModuleName::Broadcaster, a   *)
(* two-letter string is ModuleName::Other).  A HashMap is a function whose *)
(* DOMAIN is its key set; a HashSet is a set.  The iteration order of a    *)
(* HashSet is unspecified but fixed for one instance: dest_iter holds, per *)
(* module, the order in which its destination set is iterated in this run. *)
(***************************************************************************)
EXTENDS Integers, Sequences, FiniteSets, TLC

VARIABLES
    modules,        \* ModuleSystem.modules: name -> Module
    dest_iter,      \* name -> the iteration order of modules[name].destinations
    pc,             \* the position in the running function
    times,          \* press_button_times: the argument
    presses,        \* the press loop's counter
    signals,        \* the VecDeque<Signal>
    flipflop_state, \* HashMap<ModuleName, bool>
    last_sent,      \* HashMap<ModuleName, Pulse>
    low,            \* press_button_times: tally of Low signals
    high,           \* press_button_times: tally of High signals
    to_find,        \* the cycle search: members not yet found
    signal_lcm,     \* the cycle search: running LCM
    answer,         \* the value returned (Option)
    feeder,         \* part_two: the name of the module found to list rx
    watched,        \* part_two: `sources`, the set handed to the cycle search
    found,          \* history: member -> the press at which it left to_find
    senders,        \* history: senders[i] is the module that sent signals[i]
    last_received,  \* history: <<c, s>> -> the pulse c last dequeued from s
    processed,      \* history: the signal dequeued by the last step, its sender
                    \*          and the pulse its destination emitted ("none": nothing)
    first_low,      \* history: name -> the first press in which a Low addressed
                    \*          to that name was dequeued
    first_rx,       \* history: the first press of press_button_times in which
                    \*          a Low addressed to rx was dequeued (0: none yet)
    in_phase,       \* history: so far, whenever the conjunction listing rx
                    \*          dequeued a signal, each of its inputs read High
                    \*          exactly in the presses that are multiples of the
                    \*          index the search recorded for it
    heard,          \* history: the conjunction listing rx has dequeued a
                    \*          signal in this press
    steps,          \* history: the number of signals dequeued in this press
    trace,          \* history: the (pulse, destination) pairs dequeued in the
                    \*          first press of this call of press_button_times
    earlier,        \* history: the call of press_button_times made before
                    \*          this one: its result, iteration orders and trace
    arg_a,          \* gcd, lcm: the first argument of the call
    arg_b,          \* gcd, lcm: the second argument of the call
    gcd_a,          \* gcd: `let mut a`
    gcd_b,          \* gcd: `let mut b`
    gcd_shift,      \* gcd: `shift`
    result,         \* gcd, lcm: the value returned
    indices,        \* the press indices handed to lcm one after another
    folded,         \* the number of indices folded into signal_lcm
    input_str,      \* from_str: `input`, a sequence of characters
    written,        \* history: how each line of input_str was written
    line_no,        \* from_str: the number of lines parsed
    last_module,    \* history: what Module::from_str returned for the last line
    building,       \* from_str: system.modules, while the lines are parsed
    built,          \* from_str: the Result returned
    reference       \* the simulator the specification describes, run beside
                    \* press_button_times: its flip-flop states, the pulse
                    \* each Conjunction last received from each input, its
                    \* tallies and the pair it returns

vars == <<modules, dest_iter, pc, times, presses, signals, flipflop_state,
          last_sent, low, high, to_find, signal_lcm, answer, feeder, watched,
          found, senders, last_received, processed, first_low, first_rx, in_phase,
          heard, steps, trace, earlier,
          arg_a, arg_b, gcd_a, gcd_b, gcd_shift, result, indices, folded,
          input_str, written, line_no, last_module, building, built,
          reference>>

(* The variables of the simulation, all but pc. *)
simulation == <<modules, dest_iter, times, presses, signals, flipflop_state,
                last_sent, low, high, to_find, signal_lcm, answer, feeder,
                watched, found, senders, last_received, processed, first_low,
                first_rx, in_phase, heard, steps, trace, earlier, reference>>

(* The variables of a call of from_str. *)
parsing == <<input_str, written, line_no, last_module, building, built>>

(* The variables of a call of gcd or lcm made on its own. *)
arith == <<arg_a, arg_b, gcd_a, gcd_b, gcd_shift, result, indices, folded>>

(* The variables of the functions called apart from the simulation. *)
apart == <<arith, parsing, reference>>

----------------------------------------------------------------------------
(* Bounds of the model *)

MaxTimes == 2

MaxPresses == 4

MaxQueue == 5

MaxSignals == 18

MaxEdges == 5
MaxReruns == 1

(* The arguments of a call of gcd or lcm made on its own: 0..MaxArg. *)
MaxArg == 40

(* The lists of press indices folded with lcm: 1 to MaxList indices, each  *)
(* in 1..MaxIndex.                                                         *)
MaxList == 3

MaxIndex == 6

(* The inputs parsed: 0 to MaxLines lines. *)
MaxLines == 3

(* Program constants *)

ExampleTimes == 1000
PartOneTimes == 1000

ExampleLow == 4250

ExampleHigh == 2750

----------------------------------------------------------------------------
(* Types *)

Low == "Low"

High == "High"

Pulse == {Low, High}

Broadcaster == "broadcaster"

Button == "button"

(* part_two: seek, ModuleName::Other('r', 'x') *)
Rx == "rx"

NoSignal ==
    [pulse |-> "none", destination |-> "none", sender |-> "none", emitted |-> "none"]

EmptyMap == <<>>

(* What a call returns: nothing yet, the pair of press_button_times, or    *)
(* the Option<u64> of part_two.                                            *)
Running == [tag |-> "running"]

Tally(l, h) == [tag |-> "Tally", low |-> l, high |-> h]

None == [tag |-> "None"]

Some(value) == [tag |-> "Some", value |-> value]

Get(map, key, default) == IF key \in DOMAIN map THEN map[key] ELSE default

Insert(map, key, value) ==
    [k \in (DOMAIN map) \cup {key} |-> IF k = key THEN value ELSE map[k]]

TypeBroadcaster == [tag |-> "Broadcaster"]

TypeFlipFlop == [tag |-> "FlipFlop"]

Conjunction(inputs) == [tag |-> "Conjunction", inputs |-> inputs]

new_conjunction == Conjunction({})

(* Mutant: a press that starts with a High pulse. *)
Signal_initial_high == [pulse |-> High, destination |-> Broadcaster]

Signal_initial == [pulse |-> Low, destination |-> Broadcaster]

SeqToSet(s) == {s[i] : i \in 1..Len(s)}

Module(name, module_type, destinations) ==
    [name |-> name, module_type |-> module_type, destinations |-> destinations]

----------------------------------------------------------------------------
(* gcd and lcm *)

RECURSIVE trailing_zeros(_)
trailing_zeros(x) == IF x % 2 = 1 THEN 0 ELSE 1 + trailing_zeros(x \div 2)

RECURSIVE BitOr(_, _)
BitOr(a, b) ==
    IF a = 0 THEN b
    ELSE IF b = 0 THEN a
    ELSE (IF a % 2 = 1 \/ b % 2 = 1 THEN 1 ELSE 0) + 2 * BitOr(a \div 2, b \div 2)

Shr(x, n) == x \div (2 ^ n)

Shl(x, n) == x * (2 ^ n)

RECURSIVE gcd_loop(_, _)
gcd_loop(a, b) ==
    IF a = b THEN a
    ELSE IF a > b
         THEN gcd_loop(Shr(a - b, trailing_zeros(a - b)), b)
         ELSE gcd_loop(a, Shr(b - a, trailing_zeros(b - a)))

gcd(a, b) ==
    IF a = 0 \/ b = 0
    THEN BitOr(a, b)
    ELSE LET shift == trailing_zeros(BitOr(a, b))
         IN  Shl(gcd_loop(Shr(a, trailing_zeros(a)), Shr(b, trailing_zeros(b))), shift)

(* Mutant: the product in place of the least common multiple. *)
lcm_product(a, b) == IF a = 0 /\ b = 0 THEN 0 ELSE a * b

(* Mutant: a zero argument treated as gcd treats it. *)
lcm_either(a, b) == IF a = 0 \/ b = 0 THEN BitOr(a, b) ELSE a * (b \div gcd(a, b))

lcm(a, b) == IF a = 0 /\ b = 0 THEN 0 ELSE a * (b \div gcd(a, b))

----------------------------------------------------------------------------
(* Module::send_signals and ModuleSystem::process_signal *)

(* Mutant: only the first destination is sent the pulse. *)
send_signals_first(module, pulse, ls, sigs) ==
    [last_sent |-> Insert(ls, module.name, pulse),
     signals   |-> sigs \o [i \in 1..1 |->
                               [pulse |-> pulse,
                                destination |-> dest_iter[module.name][i]]]]

(* Mutant: the new signals are put at the front of the queue. *)
send_signals_front(module, pulse, ls, sigs) ==
    [last_sent |-> Insert(ls, module.name, pulse),
     signals   |-> [i \in 1..Len(dest_iter[module.name]) |->
                       [pulse |-> pulse,
                        destination |-> dest_iter[module.name][i]]] \o sigs]

(* Mutant: the pulse is sent and not remembered. *)
send_signals_unrecorded(module, pulse, ls, sigs) ==
    [last_sent |-> ls,
     signals   |-> sigs \o [i \in 1..Len(dest_iter[module.name]) |->
                               [pulse |-> pulse,
                                destination |-> dest_iter[module.name][i]]]]

send_signals(module, pulse, ls, sigs) ==
    [last_sent |-> Insert(ls, module.name, pulse),
     signals   |-> sigs \o [i \in 1..Len(dest_iter[module.name]) |->
                               [pulse |-> pulse,
                                destination |-> dest_iter[module.name][i]]]]

(* Mutant: a broadcaster that sends Low whatever pulse it was sent. *)
BroadcasterArmLow(module, signal, sigs, ffs, ls) ==
    LET sent == send_signals(module, Low, ls, sigs)
    IN  [signals |-> sent.signals, flipflop_state |-> ffs, last_sent |-> sent.last_sent]

BroadcasterArm(module, signal, sigs, ffs, ls) ==
    LET sent == send_signals(module, signal.pulse, ls, sigs)
    IN  [signals |-> sent.signals, flipflop_state |-> ffs, last_sent |-> sent.last_sent]

(* Mutant: a flip-flop that toggles on a High pulse as well. *)
FlipFlopArmAnyPulse(module, signal, sigs, ffs, ls) ==
    IF Get(ffs, module.name, FALSE)
    THEN LET sent == send_signals(module, Low, ls, sigs)
         IN  [signals |-> sent.signals,
              flipflop_state |-> Insert(ffs, module.name, FALSE),
              last_sent |-> sent.last_sent]
    ELSE LET sent == send_signals(module, High, ls, sigs)
         IN  [signals |-> sent.signals,
              flipflop_state |-> Insert(ffs, module.name, TRUE),
              last_sent |-> sent.last_sent]

(* Mutant: a flip-flop that emits the pulse of the state it leaves. *)
FlipFlopArmStale(module, signal, sigs, ffs, ls) ==
    IF signal.pulse = Low
    THEN IF Get(ffs, module.name, FALSE)
         THEN LET sent == send_signals(module, High, ls, sigs)
              IN  [signals |-> sent.signals,
                   flipflop_state |-> Insert(ffs, module.name, FALSE),
                   last_sent |-> sent.last_sent]
         ELSE LET sent == send_signals(module, Low, ls, sigs)
              IN  [signals |-> sent.signals,
                   flipflop_state |-> Insert(ffs, module.name, TRUE),
                   last_sent |-> sent.last_sent]
    ELSE [signals |-> sigs, flipflop_state |-> ffs, last_sent |-> ls]

FlipFlopArm(module, signal, sigs, ffs, ls) ==
    IF signal.pulse = Low
    THEN IF Get(ffs, module.name, FALSE)
         THEN LET sent == send_signals(module, Low, ls, sigs)
              IN  [signals |-> sent.signals,
                   flipflop_state |-> Insert(ffs, module.name, FALSE),
                   last_sent |-> sent.last_sent]
         ELSE LET sent == send_signals(module, High, ls, sigs)
              IN  [signals |-> sent.signals,
                   flipflop_state |-> Insert(ffs, module.name, TRUE),
                   last_sent |-> sent.last_sent]
    ELSE [signals |-> sigs, flipflop_state |-> ffs, last_sent |-> ls]

(* Mutant: a conjunction that emits Low as soon as one input is High. *)
ConjunctionArmAny(module, signal, sigs, ffs, ls) ==
    LET sent == IF \E input \in module.module_type.inputs :
                       Get(ls, input, Low) = High
                THEN send_signals(module, Low, ls, sigs)
                ELSE send_signals(module, High, ls, sigs)
    IN  [signals |-> sent.signals, flipflop_state |-> ffs, last_sent |-> sent.last_sent]

(* Mutant: the two branches of the conjunction exchanged. *)
ConjunctionArmSwapped(module, signal, sigs, ffs, ls) ==
    LET sent == IF \A input \in module.module_type.inputs :
                       Get(ls, input, Low) = High
                THEN send_signals(module, High, ls, sigs)
                ELSE send_signals(module, Low, ls, sigs)
    IN  [signals |-> sent.signals, flipflop_state |-> ffs, last_sent |-> sent.last_sent]

ConjunctionArm(module, signal, sigs, ffs, ls) ==
    LET sent == IF \A input \in module.module_type.inputs :
                       Get(ls, input, Low) = High
                THEN send_signals(module, Low, ls, sigs)
                ELSE send_signals(module, High, ls, sigs)
    IN  [signals |-> sent.signals, flipflop_state |-> ffs, last_sent |-> sent.last_sent]

(* Mutant: a signal to a name no line declares is remembered as sent by it. *)
process_signal_sink(signal, sigs, ffs, ls) ==
    IF signal.destination \in DOMAIN modules
    THEN LET module == modules[signal.destination]
         IN  CASE module.module_type.tag = "Broadcaster" ->
                     BroadcasterArm(module, signal, sigs, ffs, ls)
               [] module.module_type.tag = "FlipFlop" ->
                     FlipFlopArm(module, signal, sigs, ffs, ls)
               [] module.module_type.tag = "Conjunction" ->
                     ConjunctionArm(module, signal, sigs, ffs, ls)
    ELSE [signals |-> sigs, flipflop_state |-> ffs,
          last_sent |-> Insert(ls, signal.destination, signal.pulse)]

process_signal(signal, sigs, ffs, ls) ==
    IF signal.destination \in DOMAIN modules
    THEN LET module == modules[signal.destination]
         IN  CASE module.module_type.tag = "Broadcaster" ->
                     BroadcasterArm(module, signal, sigs, ffs, ls)
               [] module.module_type.tag = "FlipFlop" ->
                     FlipFlopArm(module, signal, sigs, ffs, ls)
               [] module.module_type.tag = "Conjunction" ->
                     ConjunctionArm(module, signal, sigs, ffs, ls)
    ELSE [signals |-> sigs, flipflop_state |-> ffs, last_sent |-> ls]

----------------------------------------------------------------------------
(* impl FromStr for ModuleSystem, over the parsed Module values *)

(* Mutant: a module listing itself is left out of the connections. *)
ConnectionsApart(parsed) ==
    {<<output, input>> \in (DOMAIN parsed) \X UNION {parsed[n].destinations : n \in DOMAIN parsed} :
        input \in parsed[output].destinations /\ input # output}

Connections(parsed) ==
    {<<output, input>> \in (DOMAIN parsed) \X UNION {parsed[n].destinations : n \in DOMAIN parsed} :
        input \in parsed[output].destinations}

ModuleSystem_from(parsed) ==
    [n \in DOMAIN parsed |->
        IF parsed[n].module_type.tag = "Conjunction"
        THEN [parsed[n] EXCEPT !.module_type =
                 Conjunction({c[1] : c \in {d \in Connections(parsed) : d[2] = n}})]
        ELSE parsed[n]]

(* The first loop of from_str: each line's Module is inserted under its    *)
(* name, a later line replacing an earlier one of the same name.           *)
RECURSIVE insert_all(_, _)
insert_all(lines, map) ==
    IF lines = <<>> THEN map
    ELSE insert_all(Tail(lines), Insert(map, Head(lines).name, Head(lines)))

ModuleSystem_from_lines(lines) == ModuleSystem_from(insert_all(lines, EmptyMap))

----------------------------------------------------------------------------
(* The parsers. A str is a sequence of characters, each a one-character    *)
(* string.                                                                 *)

ParseModuleError == [tag |-> "Err"]

Ok(value) == [tag |-> "Ok", value |-> value]

BroadcasterStr == <<"b", "r", "o", "a", "d", "c", "a", "s", "t", "e", "r">>

Arrow == <<" ", "-", ">", " ">>

CommaSpace == <<",", " ">>

Newline == <<"\n">>

(* The index at which pattern first occurs in str, 0 if it does not. *)
find(str, pattern) ==
    LET hits == {i \in 1..(Len(str) - Len(pattern) + 1) :
                    SubSeq(str, i, i + Len(pattern) - 1) = pattern}
    IN  IF hits = {} THEN 0 ELSE CHOOSE i \in hits : \A j \in hits : i <= j

split_once(str, pattern) ==
    LET i == find(str, pattern)
    IN  IF i = 0 THEN None
        ELSE Some(<<SubSeq(str, 1, i - 1), SubSeq(str, i + Len(pattern), Len(str))>>)

RECURSIVE split(_, _)
split(str, pattern) ==
    LET i == find(str, pattern)
    IN  IF i = 0 THEN <<str>>
        ELSE <<SubSeq(str, 1, i - 1)>> \o
             split(SubSeq(str, i + Len(pattern), Len(str)), pattern)

strip_prefix(str, char) ==
    IF Len(str) >= 1 /\ str[1] = char THEN Some(Tail(str)) ELSE None

(* str::lines: the pieces between newlines, without an empty last piece,   *)
(* each without a carriage return at its end.                              *)
lines_of(str) ==
    LET pieces == split(str, Newline)
        kept   == IF pieces[Len(pieces)] = <<>>
                  THEN SubSeq(pieces, 1, Len(pieces) - 1)
                  ELSE pieces
    IN  [i \in 1..Len(kept) |->
            IF Len(kept[i]) >= 1 /\ kept[i][Len(kept[i])] = "\r"
            THEN SubSeq(kept[i], 1, Len(kept[i]) - 1)
            ELSE kept[i]]

(* Mutant: Other(b, a) for the name written a, b. *)
ModuleName_from_str_swapped(name) ==
    IF name = BroadcasterStr
    THEN Ok(Broadcaster)
    ELSE IF Len(name) = 2 THEN Ok(name[2] \o name[1]) ELSE ParseModuleError

ModuleName_from_str(name) ==
    IF name = BroadcasterStr
    THEN Ok(Broadcaster)
    ELSE IF Len(name) = 2 THEN Ok(name[1] \o name[2]) ELSE ParseModuleError

Module_from_str(line) ==
    LET parts == split_once(line, Arrow)
    IN  IF parts = None THEN ParseModuleError
        ELSE
        LET details          == parts.value[1]
            destinations_str == parts.value[2]
            flipflop         == strip_prefix(details, "%")
            conjunction      == strip_prefix(details, "&")
            named(rest, module_type) ==
                LET name == ModuleName_from_str(rest)
                IN  IF name.tag = "Err" THEN ParseModuleError
                    ELSE Ok(<<name.value, module_type>>)
            head == IF details = BroadcasterStr
                    THEN Ok(<<Broadcaster, TypeBroadcaster>>)
                    ELSE IF flipflop # None
                         THEN named(flipflop.value, TypeFlipFlop)
                         ELSE IF conjunction # None
                              THEN named(conjunction.value, new_conjunction)
                              ELSE ParseModuleError
            pieces == split(destinations_str, CommaSpace)
            dests  == [i \in 1..Len(pieces) |-> ModuleName_from_str(pieces[i])]
        IN  IF head.tag = "Err" \/ \E i \in 1..Len(dests) : dests[i].tag = "Err"
            THEN ParseModuleError
            ELSE Ok(Module(head.value[1], head.value[2],
                           {dests[i].value : i \in 1..Len(dests)}))

----------------------------------------------------------------------------
(* The history variables follow a dequeue: `signal` sent by `sender` is     *)
(* taken from the front and process_signal leaves `after`.                  *)

IsConjunction(name) ==
    name \in DOMAIN modules /\ modules[name].module_type.tag = "Conjunction"

IsFlipFlop(name) ==
    name \in DOMAIN modules /\ modules[name].module_type.tag = "FlipFlop"

IsBroadcaster(name) ==
    name \in DOMAIN modules /\ modules[name].module_type.tag = "Broadcaster"

NewSignals(after) == SubSeq(after.signals, Len(signals), Len(after.signals))

Record(signal, after) ==
    /\ senders' = Tail(senders) \o
                  [i \in 1..Len(NewSignals(after)) |-> signal.destination]
    /\ last_received' =
           IF IsConjunction(signal.destination)
           THEN Insert(last_received, <<signal.destination, Head(senders)>>, signal.pulse)
           ELSE last_received
    /\ processed' = [pulse |-> signal.pulse,
                     destination |-> signal.destination,
                     sender |-> Head(senders),
                     emitted |-> IF NewSignals(after) = <<>> THEN "none"
                                 ELSE NewSignals(after)[1].pulse]

----------------------------------------------------------------------------
(* ModuleSystem::press_button_times *)

CountPress ==
    /\ pc = "count_press"
    /\ presses < times
    /\ presses' = presses + 1
    /\ signals' = Append(signals, Signal_initial)
    /\ senders' = Append(senders, Button)
    /\ pc' = "count_drain"
    /\ steps' = 0
    /\ heard' = FALSE
    /\ UNCHANGED <<apart, modules, dest_iter, times, flipflop_state, last_sent, low, high,
                   to_find, signal_lcm, answer, feeder, watched, found,
                   last_received, processed, first_low, first_rx, in_phase,
                   trace, earlier>>

(* Whether the inputs of the conjunction listing rx read, in press k, as   *)
(* the search's indices say: High exactly when the index divides k.        *)
ReadInPhase(ls, k) ==
    \A m \in watched \cap DOMAIN found :
        (Get(ls, m, Low) = High) <=> (k % found[m] = 0)

DueInPress(k) == \A m \in watched \cap DOMAIN found : k % found[m] = 0

(* Mutant: only the signals that reach a declared module are tallied. *)
CountSignalDeclared ==
    /\ pc = "count_drain"
    /\ signals # <<>>
    /\ LET signal == Head(signals)
           after  == process_signal(signal, Tail(signals), flipflop_state, last_sent)
       IN  /\ Len(after.signals) <= MaxQueue
           /\ steps < MaxSignals
           /\ steps' = steps + 1
           /\ trace' = IF presses = 1
                        THEN Append(trace, <<signal.pulse, signal.destination>>)
                        ELSE trace
           /\ low' = IF signal.pulse = Low /\ signal.destination \in DOMAIN modules
                    THEN low + 1 ELSE low
           /\ high' = IF signal.pulse = High /\ signal.destination \in DOMAIN modules
                     THEN high + 1 ELSE high
           /\ signals' = after.signals
           /\ flipflop_state' = after.flipflop_state
           /\ last_sent' = after.last_sent
           /\ Record(signal, after)
           /\ first_rx' = IF first_rx = 0 /\ signal.pulse = Low /\ signal.destination = Rx
                          THEN presses
                          ELSE first_rx
           /\ heard' = (heard \/ signal.destination = feeder)
           /\ in_phase' = (in_phase /\ (signal.destination = feeder =>
                                           ReadInPhase(last_sent, presses)))
    /\ UNCHANGED <<apart, modules, dest_iter, pc, times, presses, to_find, signal_lcm,
                   answer, feeder, watched, found, first_low,
                   earlier>>

CountSignal ==
    /\ pc = "count_drain"
    /\ signals # <<>>
    /\ LET signal == Head(signals)
           after  == process_signal(signal, Tail(signals), flipflop_state, last_sent)
       IN  /\ Len(after.signals) <= MaxQueue
           /\ steps < MaxSignals
           /\ steps' = steps + 1
           /\ trace' = IF presses = 1
                        THEN Append(trace, <<signal.pulse, signal.destination>>)
                        ELSE trace
           /\ low' = IF signal.pulse = Low THEN low + 1 ELSE low
           /\ high' = IF signal.pulse = High THEN high + 1 ELSE high
           /\ signals' = after.signals
           /\ flipflop_state' = after.flipflop_state
           /\ last_sent' = after.last_sent
           /\ Record(signal, after)
           /\ first_rx' = IF first_rx = 0 /\ signal.pulse = Low /\ signal.destination = Rx
                          THEN presses
                          ELSE first_rx
           /\ heard' = (heard \/ signal.destination = feeder)
           /\ in_phase' = (in_phase /\ (signal.destination = feeder =>
                                           ReadInPhase(last_sent, presses)))
    /\ UNCHANGED <<apart, modules, dest_iter, pc, times, presses, to_find, signal_lcm,
                   answer, feeder, watched, found, first_low,
                   earlier>>

(* Mutant: the drain loop left while signals are still queued. *)
CountDrainedEarly ==
    /\ pc = "count_drain"
    /\ pc' = "count_press"
    /\ in_phase' = in_phase
    /\ UNCHANGED <<apart, modules, dest_iter, times, presses, signals, flipflop_state,
                   last_sent, low, high, to_find, signal_lcm, answer, feeder,
                   watched, found, senders, last_received, processed, first_low,
                   first_rx, heard, steps,
                   trace, earlier>>

CountDrained ==
    /\ pc = "count_drain"
    /\ signals = <<>>
    /\ pc' = "count_press"
    /\ in_phase' = (in_phase /\ (feeder # "none" /\ DueInPress(presses) => heard))
    /\ UNCHANGED <<apart, modules, dest_iter, times, presses, signals, flipflop_state,
                   last_sent, low, high, to_find, signal_lcm, answer, feeder,
                   watched, found, senders, last_received, processed, first_low,
                   first_rx, heard, steps,
                   trace, earlier>>

CountReturn ==
    /\ pc = "count_press"
    /\ presses = times
    /\ pc' = "done"
    /\ answer' = Tally(low, high)
    /\ UNCHANGED <<apart, modules, dest_iter, times, presses, signals, flipflop_state,
                   last_sent, low, high, to_find, signal_lcm, feeder, watched,
                   found, senders, last_received, processed, first_low, first_rx, in_phase, heard, steps,
                   trace, earlier>>

NextCount == CountPress \/ CountSignal \/ CountDrained \/ CountReturn

(* The drain loop has no limit on its iterations. Nothing in its control   *)
(* flow reads the tallies, so past MaxSignals the signal is still          *)
(* processed, the tallies are no longer advanced and the step count only   *)
(* tells one iteration from the next.                                      *)
CountSignalBeyond ==
    /\ pc = "count_drain"
    /\ signals # <<>>
    /\ steps >= MaxSignals
    /\ LET signal == Head(signals)
           after  == process_signal(signal, Tail(signals), flipflop_state, last_sent)
       IN  /\ Len(after.signals) <= MaxQueue
           /\ signals' = after.signals
           /\ flipflop_state' = after.flipflop_state
           /\ last_sent' = after.last_sent
           /\ Record(signal, after)
           /\ first_rx' = IF first_rx = 0 /\ signal.pulse = Low /\ signal.destination = Rx
                          THEN presses
                          ELSE first_rx
           /\ heard' = (heard \/ signal.destination = feeder)
           /\ in_phase' = (in_phase /\ (signal.destination = feeder =>
                                           ReadInPhase(last_sent, presses)))
    /\ steps' = IF steps = MaxSignals THEN MaxSignals + 1 ELSE MaxSignals
    /\ UNCHANGED <<apart, modules, dest_iter, pc, times, presses, low, high, to_find,
                   signal_lcm, answer, feeder, watched, found, first_low,
                   trace, earlier>>

NextCountOn == CountPress \/ CountSignal \/ CountSignalBeyond \/ CountDrained \/ CountReturn

(* A press whose queue outgrows MaxQueue. *)
QueueOutOfBounds ==
    /\ pc = "count_drain"
    /\ signals # <<>>
    /\ Len(process_signal(Head(signals), Tail(signals), flipflop_state,
                          last_sent).signals) > MaxQueue

----------------------------------------------------------------------------
(* part_two and ModuleSystem::find_lcm_of_signals_to_destinations *)

(* `find` takes the first module, in the iteration order of the HashMap,   *)
(* that lists rx: any of them.                                             *)
PartTwo ==
    /\ pc = "part_two"
    /\ LET listing == {n \in DOMAIN modules : Rx \in modules[n].destinations}
       IN  IF listing = {}
           THEN /\ answer' = None
                /\ pc' = "done"
                /\ UNCHANGED <<feeder, watched, to_find>>
           ELSE \E n \in listing :
                  /\ feeder' = n
                  /\ IF modules[n].module_type.tag = "Conjunction"
                     THEN /\ watched' = modules[n].module_type.inputs
                          /\ to_find' = modules[n].module_type.inputs
                          /\ pc' = "find_press"
                          /\ UNCHANGED answer
                     ELSE /\ answer' = None
                          /\ pc' = "done"
                          /\ UNCHANGED <<watched, to_find>>
    /\ UNCHANGED <<apart, modules, dest_iter, times, presses, signals, flipflop_state,
                   last_sent, low, high, signal_lcm, found, senders,
                   last_received, processed, first_low, first_rx, in_phase, heard, steps,
                   trace, earlier>>

FindPress ==
    /\ pc = "find_press"
    /\ presses < MaxPresses
    /\ presses' = presses + 1
    /\ signals' = Append(signals, Signal_initial)
    /\ senders' = Append(senders, Button)
    /\ pc' = "find_drain"
    /\ steps' = 0
    /\ UNCHANGED <<apart, modules, dest_iter, times, flipflop_state, last_sent, low, high,
                   to_find, signal_lcm, answer, feeder, watched, found,
                   last_received, processed, first_low, first_rx, in_phase, heard,
                   trace, earlier>>

(* Mutant: the watch check taking High pulses for the watched event. *)
WatchCheckHigh(signal, tf) == signal.pulse = High /\ signal.destination \in tf

WatchCheck(signal, tf) == signal.pulse = Low /\ signal.destination \in tf

(* Mutant: a signal that fires a watched event is dropped, not processed. *)
FindSignalSkipping ==
    /\ pc = "find_drain"
    /\ signals # <<>>
    /\ steps < MaxSignals
    /\ steps' = steps + 1
    /\ LET signal == Head(signals)
           hit    == WatchCheck(signal, to_find)
           after  == process_signal(signal, Tail(signals), flipflop_state, last_sent)
       IN  /\ first_low' = IF signal.pulse = Low /\ signal.destination \notin DOMAIN first_low
                           THEN Insert(first_low, signal.destination, presses)
                           ELSE first_low
           /\ to_find' = IF hit THEN to_find \ {signal.destination} ELSE to_find
           /\ signal_lcm' = IF hit THEN lcm(signal_lcm, presses) ELSE signal_lcm
           /\ found' = IF hit THEN Insert(found, signal.destination, presses) ELSE found
           /\ IF hit
              THEN /\ answer' = IF to_find' = {} THEN Some(signal_lcm') ELSE answer
                   /\ pc' = IF to_find' = {} THEN "done" ELSE pc
                   /\ signals' = Tail(signals)
                   /\ senders' = Tail(senders)
                   /\ processed' = [pulse |-> signal.pulse,
                                    destination |-> signal.destination,
                                    sender |-> Head(senders),
                                    emitted |-> "none"]
                   /\ UNCHANGED <<flipflop_state, last_sent, last_received>>
              ELSE /\ Len(after.signals) <= MaxQueue
                   /\ signals' = after.signals
                   /\ flipflop_state' = after.flipflop_state
                   /\ last_sent' = after.last_sent
                   /\ Record(signal, after)
                   /\ UNCHANGED <<answer, pc>>
    /\ UNCHANGED <<apart, modules, dest_iter, times, presses, low, high, feeder, watched,
                   first_rx, in_phase, heard,
                   trace, earlier>>

FindSignal ==
    /\ pc = "find_drain"
    /\ signals # <<>>
    /\ steps < MaxSignals
    /\ steps' = steps + 1
    /\ LET signal == Head(signals)
           hit    == WatchCheck(signal, to_find)
           after  == process_signal(signal, Tail(signals), flipflop_state, last_sent)
       IN  /\ first_low' = IF signal.pulse = Low /\ signal.destination \notin DOMAIN first_low
                           THEN Insert(first_low, signal.destination, presses)
                           ELSE first_low
           /\ to_find' = IF hit THEN to_find \ {signal.destination} ELSE to_find
           /\ signal_lcm' = IF hit THEN lcm(signal_lcm, presses) ELSE signal_lcm
           /\ found' = IF hit THEN Insert(found, signal.destination, presses) ELSE found
           /\ IF hit /\ to_find' = {}
              THEN /\ answer' = Some(signal_lcm')
                   /\ pc' = "done"
                   /\ signals' = Tail(signals)
                   /\ senders' = Tail(senders)
                   /\ processed' = [pulse |-> signal.pulse,
                                    destination |-> signal.destination,
                                    sender |-> Head(senders),
                                    emitted |-> "none"]
                   /\ UNCHANGED <<flipflop_state, last_sent, last_received>>
              ELSE /\ Len(after.signals) <= MaxQueue
                   /\ signals' = after.signals
                   /\ flipflop_state' = after.flipflop_state
                   /\ last_sent' = after.last_sent
                   /\ Record(signal, after)
                   /\ UNCHANGED <<answer, pc>>
    /\ UNCHANGED <<apart, modules, dest_iter, times, presses, low, high, feeder, watched,
                   first_rx, in_phase, heard,
                   trace, earlier>>

(* Mutant: the search keeps what each module last sent for one press only. *)
FindDrainedForgetting ==
    /\ pc = "find_drain"
    /\ signals = <<>>
    /\ pc' = "find_press"
    /\ last_sent' = EmptyMap
    /\ UNCHANGED <<apart, modules, dest_iter, times, presses, signals, flipflop_state,
                   low, high, to_find, signal_lcm, answer, feeder,
                   watched, found, senders, last_received, processed, first_low,
                   first_rx, in_phase, heard, steps,
                   trace, earlier>>

FindDrained ==
    /\ pc = "find_drain"
    /\ signals = <<>>
    /\ pc' = "find_press"
    /\ UNCHANGED <<apart, modules, dest_iter, times, presses, signals, flipflop_state,
                   last_sent, low, high, to_find, signal_lcm, answer, feeder,
                   watched, found, senders, last_received, processed, first_low,
                   first_rx, in_phase, heard, steps,
                   trace, earlier>>

NextWatch == PartTwo \/ FindPress \/ FindSignal \/ FindDrained

(* `for presses in 1..` has no upper limit. Nothing in the loop's control  *)
(* flow reads the counter, so past MaxPresses the press still starts and   *)
(* the counter is no longer advanced.                                      *)
FindPressBeyond ==
    /\ pc = "find_press"
    /\ presses = MaxPresses
    /\ signals' = Append(signals, Signal_initial)
    /\ senders' = Append(senders, Button)
    /\ pc' = "find_drain"
    /\ steps' = 0
    /\ UNCHANGED <<apart, modules, dest_iter, times, presses, flipflop_state, last_sent,
                   low, high, to_find, signal_lcm, answer, feeder, watched, found,
                   last_received, processed, first_low, first_rx, in_phase, heard,
                   trace, earlier>>

(* part_one: press_button_times(1000), then low * high on u32.  A u32 or  *)
(* a product is written [hi, lo] for hi * 2^16 + lo, each part being       *)
(* within the integers of the checker.                                     *)
Half == 65536

Byte == 256

(* The mathematical product of a and b, for a, b < 2^17. *)
wide_mul(a, b) ==
    LET x   == (a \div Byte) * b
        y   == (a % Byte) * b
        mid == (x % Byte) * Byte + y
    IN  [hi |-> (x \div Byte) + (mid \div Half), lo |-> mid % Half]

(* u32 `*` where it does not panic: the product modulo 2^32. *)
wrapping_mul(a, b) ==
    [hi |-> wide_mul(a, b).hi % Half, lo |-> wide_mul(a, b).lo]

Overflows(a, b) == wide_mul(a, b).hi >= Half

Panic == [tag |-> "Panic"]

(* One press of press_button_times, from the push of the initial signal   *)
(* to the empty queue, on a system whose presses all end by themselves.   *)
(* The histories of single signals are not kept here.                     *)
RECURSIVE drain(_)
drain(st) ==
    IF st.signals = <<>>
    THEN st
    ELSE LET signal == Head(st.signals)
             after  == process_signal(signal, Tail(st.signals),
                                      st.flipflop_state, st.last_sent)
         IN  drain([signals        |-> after.signals,
                    flipflop_state |-> after.flipflop_state,
                    last_sent      |-> after.last_sent,
                    low            |-> IF signal.pulse = Low THEN st.low + 1 ELSE st.low,
                    high           |-> IF signal.pulse = High THEN st.high + 1 ELSE st.high])

PartOnePress ==
    /\ pc = "count_press"
    /\ presses < times
    /\ presses' = presses + 1
    /\ LET end == drain([signals        |-> Append(signals, Signal_initial),
                         flipflop_state |-> flipflop_state,
                         last_sent      |-> last_sent,
                         low            |-> low,
                         high           |-> high])
       IN  /\ signals' = end.signals
           /\ flipflop_state' = end.flipflop_state
           /\ last_sent' = end.last_sent
           /\ low' = end.low
           /\ high' = end.high
    /\ UNCHANGED <<apart, modules, dest_iter, pc, times, to_find, signal_lcm, answer,
                   feeder, watched, found, senders, last_received, processed,
                   first_low, first_rx, in_phase, heard, steps, trace, earlier>>

(* `low * high` overflowing panics in a build with overflow checks and    *)
(* wraps in a build without.                                              *)
PartOneReturn ==
    /\ pc = "count_press"
    /\ presses = times
    /\ pc' = "done"
    /\ answer' \in IF Overflows(low, high)
                   THEN {Panic, Some(wrapping_mul(low, high))}
                   ELSE {Some(wide_mul(low, high))}
    /\ UNCHANGED <<apart, modules, dest_iter, times, presses, signals, flipflop_state,
                   last_sent, low, high, to_find, signal_lcm, feeder, watched,
                   found, senders, last_received, processed, first_low, first_rx,
                   in_phase, heard, steps, trace, earlier>>

NextPartOne == PartOnePress \/ PartOneReturn

(* The direct simulation against which part_two's value is compared: a    *)
(* fresh run of press_button_times for as many presses as part_two gave.  *)
DirectStart ==
    /\ pc = "done"
    /\ answer.tag = "Some"
    /\ times' = answer.value
    /\ pc' = "count_press"
    /\ presses' = 0
    /\ signals' = <<>>
    /\ flipflop_state' = EmptyMap
    /\ last_sent' = EmptyMap
    /\ low' = 0
    /\ high' = 0
    /\ senders' = <<>>
    /\ last_received' = EmptyMap
    /\ processed' = NoSignal
    /\ first_rx' = 0
    /\ in_phase' = TRUE
    /\ heard' = FALSE
    /\ steps' = 0
    /\ trace' = <<>>
    /\ UNCHANGED <<apart, modules, dest_iter, to_find, signal_lcm, answer, feeder, watched,
                   found, first_low,
                   earlier>>

NextDirect == NextWatch \/ DirectStart \/ NextCount

NextWatchOn == PartTwo \/ FindPress \/ FindPressBeyond \/ FindSignal \/ FindDrained

(* A press that the bounds MaxSignals and MaxQueue cut short. *)
OutOfBounds ==
    /\ pc = "find_drain"
    /\ signals # <<>>
    /\ \/ steps >= MaxSignals
       \/ Len(process_signal(Head(signals), Tail(signals), flipflop_state,
                             last_sent).signals) > MaxQueue

----------------------------------------------------------------------------
(* gcd, statement by statement *)

GcdZero ==
    /\ pc = "gcd_entry"
    /\ gcd_a = 0 \/ gcd_b = 0
    /\ result' = BitOr(gcd_a, gcd_b)
    /\ pc' = "gcd_return"
    /\ UNCHANGED <<parsing, simulation, arg_a, arg_b, gcd_a, gcd_b, gcd_shift, indices, folded>>

GcdStrip ==
    /\ pc = "gcd_entry"
    /\ ~(gcd_a = 0 \/ gcd_b = 0)
    /\ gcd_shift' = trailing_zeros(BitOr(gcd_a, gcd_b))
    /\ gcd_a' = Shr(gcd_a, trailing_zeros(gcd_a))
    /\ gcd_b' = Shr(gcd_b, trailing_zeros(gcd_b))
    /\ pc' = "gcd_loop"
    /\ UNCHANGED <<parsing, simulation, arg_a, arg_b, result, indices, folded>>

(* Mutant: the difference is kept as it is, factors of two included. *)
GcdReduceAUnshifted ==
    /\ pc = "gcd_loop"
    /\ gcd_a # gcd_b
    /\ gcd_a > gcd_b
    /\ gcd_a' = gcd_a - gcd_b
    /\ UNCHANGED <<parsing, simulation, pc, arg_a, arg_b, gcd_b, gcd_shift, result, indices, folded>>

GcdReduceA ==
    /\ pc = "gcd_loop"
    /\ gcd_a # gcd_b
    /\ gcd_a > gcd_b
    /\ gcd_a' = Shr(gcd_a - gcd_b, trailing_zeros(gcd_a - gcd_b))
    /\ UNCHANGED <<parsing, simulation, pc, arg_a, arg_b, gcd_b, gcd_shift, result, indices, folded>>

GcdReduceB ==
    /\ pc = "gcd_loop"
    /\ gcd_a # gcd_b
    /\ ~(gcd_a > gcd_b)
    /\ gcd_b' = Shr(gcd_b - gcd_a, trailing_zeros(gcd_b - gcd_a))
    /\ UNCHANGED <<parsing, simulation, pc, arg_a, arg_b, gcd_a, gcd_shift, result, indices, folded>>

(* Mutant: the common factors of two are not put back. *)
GcdConvergedUnshifted ==
    /\ pc = "gcd_loop"
    /\ gcd_a = gcd_b
    /\ result' = gcd_a
    /\ pc' = "gcd_return"
    /\ UNCHANGED <<parsing, simulation, arg_a, arg_b, gcd_a, gcd_b, gcd_shift, indices, folded>>

GcdConverged ==
    /\ pc = "gcd_loop"
    /\ gcd_a = gcd_b
    /\ result' = Shl(gcd_a, gcd_shift)
    /\ pc' = "gcd_return"
    /\ UNCHANGED <<parsing, simulation, arg_a, arg_b, gcd_a, gcd_b, gcd_shift, indices, folded>>

NextGcd == GcdZero \/ GcdStrip \/ GcdReduceA \/ GcdReduceB \/ GcdConverged

----------------------------------------------------------------------------
(* lcm, and the fold of lcm over press indices *)

(* The variables of the simulation but pc and signal_lcm. *)
simulation_but_lcm ==
    <<modules, dest_iter, times, presses, signals, flipflop_state, last_sent,
      low, high, to_find, answer, feeder, watched, found, senders,
      last_received, processed, first_low, first_rx, in_phase, heard, steps,
      trace, earlier, reference>>

(* A division by zero panics. *)
LcmCall ==
    /\ pc = "lcm_entry"
    /\ IF ~(arg_a = 0 /\ arg_b = 0) /\ gcd(arg_a, arg_b) = 0
       THEN pc' = "panic" /\ result' = result
       ELSE pc' = "lcm_return" /\ result' = lcm(arg_a, arg_b)
    /\ UNCHANGED <<parsing, simulation, arg_a, arg_b, gcd_a, gcd_b, gcd_shift, indices, folded>>

(* signal_lcm = lcm(signal_lcm, presses), for the next index of the list *)
LcmFold ==
    /\ pc = "lcm_fold"
    /\ folded < Len(indices)
    /\ folded' = folded + 1
    /\ IF ~(signal_lcm = 0 /\ indices[folded + 1] = 0)
          /\ gcd(signal_lcm, indices[folded + 1]) = 0
       THEN pc' = "panic" /\ signal_lcm' = signal_lcm
       ELSE pc' = pc /\ signal_lcm' = lcm(signal_lcm, indices[folded + 1])
    /\ UNCHANGED <<parsing, simulation_but_lcm, arg_a, arg_b, gcd_a, gcd_b, gcd_shift,
                   result, indices>>

LcmFolded ==
    /\ pc = "lcm_fold"
    /\ folded = Len(indices)
    /\ result' = signal_lcm
    /\ pc' = "lcm_folded"
    /\ UNCHANGED <<parsing, simulation, arg_a, arg_b, gcd_a, gcd_b, gcd_shift, indices, folded>>

NextLcm == LcmCall \/ LcmFold \/ LcmFolded

----------------------------------------------------------------------------
(* ModuleSystem::from_str line by line, and what part_one and part_two     *)
(* return when it fails                                                    *)

(* The variables of the simulation but pc and answer. *)
simulation_but_answer ==
    <<modules, dest_iter, times, presses, signals, flipflop_state, last_sent,
      low, high, to_find, signal_lcm, feeder, watched, found, senders,
      last_received, processed, first_low, first_rx, in_phase, heard, steps,
      trace, earlier, reference>>

(* Mutant: a line that does not parse is passed over. *)
ParseLineSkipping ==
    /\ pc = "from_str"
    /\ line_no < Len(lines_of(input_str))
    /\ line_no' = line_no + 1
    /\ LET module == Module_from_str(lines_of(input_str)[line_no + 1])
       IN  /\ last_module' = module
           /\ building' = IF module.tag = "Err" THEN building
                           ELSE Insert(building, module.value.name, module.value)
           /\ UNCHANGED <<pc, built>>
    /\ UNCHANGED <<arith, simulation, input_str, written>>

(* let module = Module::from_str(line)?; system.modules.insert(...) *)
ParseLine ==
    /\ pc = "from_str"
    /\ line_no < Len(lines_of(input_str))
    /\ line_no' = line_no + 1
    /\ LET module == Module_from_str(lines_of(input_str)[line_no + 1])
       IN  /\ last_module' = module
           /\ IF module.tag = "Err"
              THEN /\ built' = ParseModuleError
                   /\ pc' = "from_str_return"
                   /\ UNCHANGED building
              ELSE /\ building' = Insert(building, module.value.name, module.value)
                   /\ UNCHANGED <<pc, built>>
    /\ UNCHANGED <<arith, simulation, input_str, written>>

(* The connections are made and Ok(system) is returned. *)
ParseConnect ==
    /\ pc = "from_str"
    /\ line_no = Len(lines_of(input_str))
    /\ built' = Ok(ModuleSystem_from(building))
    /\ pc' = "from_str_return"
    /\ UNCHANGED <<arith, simulation, input_str, written, line_no, last_module,
                   building>>

(* part_one and part_two: `if let Ok(system) = ...` fails and None is      *)
(* returned. With Ok(system) the simulation follows.                       *)
PartsReturnNone ==
    /\ pc = "from_str_return"
    /\ built.tag = "Err"
    /\ answer' = None
    /\ pc' = "done"
    /\ UNCHANGED <<arith, parsing, simulation_but_answer>>

NextParse == ParseLine \/ ParseConnect \/ PartsReturnNone

----------------------------------------------------------------------------
(* press_button_times beside the simulator of the specification, press by  *)
(* press. The reference simulator's signals name their sender; a           *)
(* Conjunction records the pulse under the sender when it dequeues the     *)
(* signal and emits Low exactly when every input's record is High. It      *)
(* enqueues a module's destinations in the order press_button_times does.  *)

reference_send(module, pulse, sigs) ==
    sigs \o [i \in 1..Len(dest_iter[module.name]) |->
                [pulse |-> pulse, destination |-> dest_iter[module.name][i],
                 sender |-> module.name]]

reference_process(signal, sigs, ffs, lr) ==
    IF signal.destination \in DOMAIN modules
    THEN LET module == modules[signal.destination]
         IN  CASE module.module_type.tag = "Broadcaster" ->
                     [signals |-> reference_send(module, signal.pulse, sigs),
                      flipflop_state |-> ffs, last_received |-> lr]
               [] module.module_type.tag = "FlipFlop" ->
                     IF signal.pulse = Low
                     THEN IF Get(ffs, module.name, FALSE)
                          THEN [signals |-> reference_send(module, Low, sigs),
                                flipflop_state |-> Insert(ffs, module.name, FALSE),
                                last_received |-> lr]
                          ELSE [signals |-> reference_send(module, High, sigs),
                                flipflop_state |-> Insert(ffs, module.name, TRUE),
                                last_received |-> lr]
                     ELSE [signals |-> sigs, flipflop_state |-> ffs, last_received |-> lr]
               [] module.module_type.tag = "Conjunction" ->
                     LET heard_now == Insert(lr, <<module.name, signal.sender>>, signal.pulse)
                         all_high  == \A input \in module.module_type.inputs :
                                         Get(heard_now, <<module.name, input>>, Low) = High
                     IN  [signals |-> reference_send(module, IF all_high THEN Low ELSE High, sigs),
                          flipflop_state |-> ffs, last_received |-> heard_now]
    ELSE [signals |-> sigs, flipflop_state |-> ffs, last_received |-> lr]

(* One press of the reference simulator, given up after `fuel` signals. *)
RECURSIVE reference_drain(_, _)
reference_drain(st, fuel) ==
    IF st.signals = <<>> \/ fuel = 0
    THEN st
    ELSE LET signal == Head(st.signals)
             after  == reference_process(signal, Tail(st.signals),
                                         st.flipflop_state, st.last_received)
         IN  reference_drain(
                 [signals        |-> after.signals,
                  flipflop_state |-> after.flipflop_state,
                  last_received  |-> after.last_received,
                  low            |-> IF signal.pulse = Low THEN st.low + 1 ELSE st.low,
                  high           |-> IF signal.pulse = High THEN st.high + 1 ELSE st.high],
                 fuel - 1)

(* One press of press_button_times, given up after `fuel` signals. *)
RECURSIVE drain_within(_, _)
drain_within(st, fuel) ==
    IF st.signals = <<>> \/ fuel = 0
    THEN st
    ELSE LET signal == Head(st.signals)
             after  == process_signal(signal, Tail(st.signals),
                                      st.flipflop_state, st.last_sent)
         IN  drain_within(
                 [signals        |-> after.signals,
                  flipflop_state |-> after.flipflop_state,
                  last_sent      |-> after.last_sent,
                  low            |-> IF signal.pulse = Low THEN st.low + 1 ELSE st.low,
                  high           |-> IF signal.pulse = High THEN st.high + 1 ELSE st.high],
                 fuel - 1)

(* press_button_times after its first k presses, each press given up       *)
(* after MaxSignals signals.                                               *)
RECURSIVE pressed(_)
pressed(k) ==
    IF k = 0
    THEN [signals |-> <<>>, flipflop_state |-> EmptyMap, last_sent |-> EmptyMap,
          low |-> 0, high |-> 0]
    ELSE LET before == pressed(k - 1)
         IN  drain_within([before EXCEPT !.signals = Append(before.signals, Signal_initial)],
                          MaxSignals)

(* Both simulators make their next press; a press that either does not     *)
(* finish within MaxSignals signals ends the comparison.                   *)
BothPress ==
    /\ pc = "count_press"
    /\ presses < times
    /\ presses' = presses + 1
    /\ LET code == drain_within([signals        |-> <<Signal_initial>>,
                                 flipflop_state |-> flipflop_state,
                                 last_sent      |-> last_sent,
                                 low            |-> low,
                                 high           |-> high], MaxSignals)
           spec == reference_drain(
                       [signals        |-> <<[pulse |-> Low, destination |-> Broadcaster,
                                              sender |-> Button]>>,
                        flipflop_state |-> reference.flipflop_state,
                        last_received  |-> reference.last_received,
                        low            |-> reference.low,
                        high           |-> reference.high], MaxSignals)
       IN  IF code.signals # <<>> \/ spec.signals # <<>>
           THEN /\ pc' = "cut"
                /\ UNCHANGED <<flipflop_state, last_sent, low, high, reference>>
           ELSE /\ pc' = pc
                /\ flipflop_state' = code.flipflop_state
                /\ last_sent' = code.last_sent
                /\ low' = code.low
                /\ high' = code.high
                /\ reference' = [reference EXCEPT
                                    !.flipflop_state = spec.flipflop_state,
                                    !.last_received = spec.last_received,
                                    !.low = spec.low,
                                    !.high = spec.high]
    /\ UNCHANGED <<arith, parsing, modules, dest_iter, times, signals, to_find,
                   signal_lcm, answer, feeder, watched, found, senders,
                   last_received, processed, first_low, first_rx, in_phase, heard,
                   steps, trace, earlier>>

BothReturn ==
    /\ pc = "count_press"
    /\ presses = times
    /\ pc' = "done"
    /\ answer' = Tally(low, high)
    /\ reference' = [reference EXCEPT !.answer = Tally(reference.low, reference.high)]
    /\ UNCHANGED <<arith, parsing, modules, dest_iter, times, presses, signals,
                   flipflop_state, last_sent, low, high, to_find, signal_lcm, feeder,
                   watched, found, senders, last_received, processed, first_low,
                   first_rx, in_phase, heard, steps, trace, earlier>>

NextBoth == BothPress \/ BothReturn

----------------------------------------------------------------------------
(* The search with its u64 arithmetic at full width, press by press.       *)
(* A u64 is written as its four 16-bit limbs, the lowest first; a product  *)
(* has a fifth limb, which is what does not fit in 64 bits.                *)

U64(n) == <<n % Half, n \div Half, 0, 0>>

(* The value of a u64 below 2^31. *)
ToInt(x) == x[1] + x[2] * Half

IsZero64(x) == \A i \in 1..4 : x[i] = 0

or64(x, y) == [i \in 1..4 |-> BitOr(x[i], y[i])]

shr1(x) ==
    [i \in 1..4 |-> (x[i] \div 2) + (IF i < 4 THEN (x[i + 1] % 2) * (Half \div 2) ELSE 0)]

shl1(x) ==
    [i \in 1..4 |-> ((x[i] * 2) % Half) + (IF i > 1 THEN x[i - 1] \div (Half \div 2) ELSE 0)]

RECURSIVE shr64(_, _)
shr64(x, n) == IF n = 0 THEN x ELSE shr64(shr1(x), n - 1)

RECURSIVE shl64(_, _)
shl64(x, n) == IF n = 0 THEN x ELSE shl64(shl1(x), n - 1)

(* u64::trailing_zeros; 64 for 0 *)
RECURSIVE trailing_zeros64(_)
trailing_zeros64(x) ==
    IF IsZero64(x) THEN 64
    ELSE IF x[1] % 2 = 1 THEN 0 ELSE 1 + trailing_zeros64(shr1(x))

gt64(x, y) ==
    \E i \in 1..4 : x[i] > y[i] /\ \A j \in (i + 1)..4 : x[j] = y[j]

(* x - y for x >= y *)
sub64(x, y) ==
    LET d1 == x[1] - y[1]
        b1 == IF d1 < 0 THEN 1 ELSE 0
        d2 == x[2] - y[2] - b1
        b2 == IF d2 < 0 THEN 1 ELSE 0
        d3 == x[3] - y[3] - b2
        b3 == IF d3 < 0 THEN 1 ELSE 0
        d4 == x[4] - y[4] - b3
    IN  <<d1 + b1 * Half, d2 + b2 * Half, d3 + b3 * Half, d4>>

RECURSIVE gcd_loop64(_, _)
gcd_loop64(a, b) ==
    IF a = b THEN a
    ELSE IF gt64(a, b)
         THEN gcd_loop64(shr64(sub64(a, b), trailing_zeros64(sub64(a, b))), b)
         ELSE gcd_loop64(a, shr64(sub64(b, a), trailing_zeros64(sub64(b, a))))

gcd64(a, b) ==
    IF IsZero64(a) \/ IsZero64(b)
    THEN or64(a, b)
    ELSE LET shift == trailing_zeros64(or64(a, b))
         IN  shl64(gcd_loop64(shr64(a, trailing_zeros64(a)),
                              shr64(b, trailing_zeros64(b))), shift)

(* The mathematical product of a u64 and q < 2^15, in five limbs. *)
mul_wide(x, q) ==
    LET p1 == x[1] * q
        p2 == x[2] * q + (p1 \div Half)
        p3 == x[3] * q + (p2 \div Half)
        p4 == x[4] * q + (p3 \div Half)
    IN  <<p1 % Half, p2 % Half, p3 % Half, p4 % Half, p4 \div Half>>

(* a * (b / gcd(a, b)) before it is cut to 64 bits, for b below 2^15: the  *)
(* divisor is then below 2^15 as well.                                     *)
lcm_wide(a, b) ==
    IF IsZero64(a) /\ IsZero64(b)
    THEN <<0, 0, 0, 0, 0>>
    ELSE mul_wide(a, ToInt(b) \div ToInt(gcd64(a, b)))

(* x modulo the small number n *)
mod64(x, n) ==
    LET r4 == x[4] % n
        r3 == (r4 * Half + x[3]) % n
        r2 == (r3 * Half + x[2]) % n
    IN  (r2 * Half + x[1]) % n

(* The signals one step of the model takes from the queue, at most. *)
Chunk == 24

(* The drain loop of the search, for at most `fuel` signals. `checks` is   *)
(* whether the build checks arithmetic overflow: with checks an            *)
(* overflowing `*` panics, without it the product is cut to 64 bits.       *)
RECURSIVE seek(_, _, _, _)
seek(st, press, checks, fuel) ==
    IF st.signals = <<>> \/ fuel = 0
    THEN st
    ELSE LET signal  == Head(st.signals)
             hit     == WatchCheck(signal, st.to_find)
             left    == IF hit THEN st.to_find \ {signal.destination} ELSE st.to_find
             product == lcm_wide(st.signal_lcm, U64(press))
             next    == IF hit THEN SubSeq(product, 1, 4) ELSE st.signal_lcm
             seen    == IF hit THEN Insert(st.found, signal.destination, press)
                        ELSE st.found
         IN  IF hit /\ product[5] # 0 /\ checks
             THEN [st EXCEPT !.answer = Panic, !.to_find = left, !.found = seen]
             ELSE IF hit /\ left = {}
             THEN [st EXCEPT !.answer = Some(next), !.signal_lcm = next,
                             !.to_find = left, !.found = seen,
                             !.signals = Tail(st.signals)]
             ELSE LET after == process_signal(signal, Tail(st.signals),
                                              st.flipflop_state, st.last_sent)
                  IN  seek([signals        |-> after.signals,
                            flipflop_state |-> after.flipflop_state,
                            last_sent      |-> after.last_sent,
                            to_find        |-> left,
                            signal_lcm     |-> next,
                            found          |-> seen,
                            answer         |-> st.answer], press, checks, fuel - 1)

(* for presses in 1.. { signals.push_back(Signal::initial()) *)
SeekPress ==
    /\ pc = "find_press"
    /\ presses' = presses + 1
    /\ signals' = Append(signals, Signal_initial)
    /\ pc' = "find_drain"
    /\ UNCHANGED <<apart, modules, dest_iter, times, flipflop_state, last_sent, low,
                   high, to_find, signal_lcm, answer, feeder, watched, found,
                   senders, last_received, processed, first_low, first_rx, in_phase,
                   heard, steps, trace, earlier>>

(* The next signals of the drain loop, up to Chunk of them: to the return, *)
(* to the empty queue, or to be gone on with.                              *)
SeekDrain ==
    /\ pc = "find_drain"
    /\ \E checks \in BOOLEAN :
         LET end == seek([signals        |-> signals,
                          flipflop_state |-> flipflop_state,
                          last_sent      |-> last_sent,
                          to_find        |-> to_find,
                          signal_lcm     |-> signal_lcm,
                          found          |-> found,
                          answer         |-> answer], presses, checks, Chunk)
         IN  /\ signals' = end.signals
             /\ flipflop_state' = end.flipflop_state
             /\ last_sent' = end.last_sent
             /\ to_find' = end.to_find
             /\ signal_lcm' = end.signal_lcm
             /\ found' = end.found
             /\ answer' = end.answer
             /\ pc' = IF end.answer # Running THEN "done"
                      ELSE IF end.signals = <<>> THEN "find_press"
                      ELSE pc
    /\ UNCHANGED <<apart, modules, dest_iter, times, presses, low, high, feeder,
                   watched, senders, last_received, processed, first_low, first_rx,
                   in_phase, heard, steps, trace, earlier>>

NextSeek == PartTwo \/ SeekPress \/ SeekDrain

----------------------------------------------------------------------------
(* The locals of a fresh call *)

NoCall == [calls |-> 0, rebuilt |-> FALSE, answer |-> Running,
           dest_iter |-> EmptyMap, trace |-> <<>>]

(* The reference simulator before its first press. *)
NoReference ==
    [flipflop_state |-> EmptyMap, last_received |-> EmptyMap,
     low |-> 0, high |-> 0, answer |-> Running]

(* No call of gcd or lcm on its own is under way. *)
NoArithmetic ==
    /\ arg_a = 0
    /\ arg_b = 0
    /\ gcd_a = 0
    /\ gcd_b = 0
    /\ gcd_shift = 0
    /\ result = 0
    /\ indices = <<>>
    /\ folded = 0

(* No call of from_str is under way. *)
NoParse ==
    /\ input_str = <<>>
    /\ written = <<>>
    /\ line_no = 0
    /\ last_module = Running
    /\ building = EmptyMap
    /\ built = Running

Fresh ==
    /\ NoArithmetic
    /\ NoParse
    /\ reference = NoReference
    /\ presses = 0
    /\ signals = <<>>
    /\ flipflop_state = EmptyMap
    /\ last_sent = EmptyMap
    /\ low = 0
    /\ high = 0
    /\ to_find = {}
    /\ signal_lcm = 1
    /\ answer = Running
    /\ feeder = "none"
    /\ watched = {}
    /\ found = EmptyMap
    /\ senders = <<>>
    /\ last_received = EmptyMap
    /\ processed = NoSignal
    /\ first_low = EmptyMap
    /\ first_rx = 0
    /\ in_phase = TRUE
    /\ heard = FALSE
    /\ trace = <<>>
    /\ earlier = NoCall
    /\ steps = 0

(* example_system() of the tests, and press_button_times(1000) on it *)

(* No ModuleSystem is being simulated. *)
NoSimulation ==
    /\ modules = EmptyMap
    /\ dest_iter = EmptyMap
    /\ times = 0
    /\ presses = 0
    /\ signals = <<>>
    /\ flipflop_state = EmptyMap
    /\ last_sent = EmptyMap
    /\ low = 0
    /\ high = 0
    /\ to_find = {}
    /\ signal_lcm = 1
    /\ answer = Running
    /\ feeder = "none"
    /\ watched = {}
    /\ found = EmptyMap
    /\ senders = <<>>
    /\ last_received = EmptyMap
    /\ processed = NoSignal
    /\ first_low = EmptyMap
    /\ first_rx = 0
    /\ in_phase = TRUE
    /\ heard = FALSE
    /\ trace = <<>>
    /\ earlier = NoCall
    /\ steps = 0
    /\ reference = NoReference

(* A call gcd(arg_a, arg_b), at its first statement. *)
InitGcd ==
    /\ NoSimulation
    /\ NoParse
    /\ arg_a \in 0..MaxArg
    /\ arg_b \in 0..MaxArg
    /\ gcd_a = arg_a
    /\ gcd_b = arg_b
    /\ gcd_shift = 0
    /\ result = 0
    /\ indices = <<>>
    /\ folded = 0
    /\ pc = "gcd_entry"

SpecGcd == InitGcd /\ [][NextGcd]_vars

(* gcd as the single thread runs it: a step is taken whenever one is       *)
(* possible.                                                               *)
SpecGcdOn == InitGcd /\ [][NextGcd]_vars /\ WF_vars(NextGcd)

(* How a name is written, and the ModuleName it stands for. *)
Written(text, name) == [text |-> text, name |-> name]

GoodNames ==
    {Written(<<"a", "a">>, "aa"), Written(<<"r", "x">>, "rx"),
     Written(BroadcasterStr, Broadcaster)}

BadNames == {Written(<<"a">>, "none"), Written(<<"a", "b", "c">>, "none")}

(* How a line is written: prefix, name, separator, destinations. *)
Line(prefix, name, sep, dests) ==
    [prefix |-> prefix, name |-> name, sep |-> sep, dests |-> dests]

GoodDests ==
    {<<Written(<<"a", "a">>, "aa")>>,
     <<Written(<<"r", "x">>, "rx"), Written(<<"a", "a">>, "aa")>>,
     <<Written(<<"a", "a">>, "aa"), Written(<<"a", "a">>, "aa")>>,
     <<Written(BroadcasterStr, Broadcaster), Written(<<"r", "x">>, "rx")>>}

GoodLines ==
    {Line(prefix, name, Arrow, dests) :
        prefix \in {<<"%">>, <<"&">>}, name \in GoodNames \ {Written(<<"a", "a">>, "aa")},
        dests \in GoodDests \ {<<Written(<<"a", "a">>, "aa"), Written(<<"a", "a">>, "aa")>>}}
    \cup {Line(<<"%">>, Written(<<"a", "a">>, "aa"), Arrow, dests) : dests \in GoodDests}
    \cup {Line(<<>>, Written(BroadcasterStr, Broadcaster), Arrow, dests) :
             dests \in {<<Written(<<"a", "a">>, "aa")>>}}

BlankLine == Line(<<>>, Written(<<>>, "none"), <<>>, <<>>)

BadLines ==
    {Line(<<"%">>, Written(<<"a", "a">>, "aa"), <<" ", ">", " ">>,
          <<Written(<<"a", "a">>, "aa")>>),
     Line(<<"#">>, Written(<<"a", "a">>, "aa"), Arrow, <<Written(<<"a", "a">>, "aa")>>),
     Line(<<>>, Written(<<"a", "a">>, "aa"), Arrow, <<Written(<<"a", "a">>, "aa")>>),
     Line(<<"%">>, Written(<<"a", "b", "c">>, "none"), Arrow,
          <<Written(<<"a", "a">>, "aa")>>),
     Line(<<"&">>, Written(<<"a">>, "none"), Arrow, <<Written(<<"a", "a">>, "aa")>>),
     Line(<<"%">>, Written(<<"a", "a">>, "aa"), Arrow, <<Written(<<"a">>, "none")>>),
     Line(<<"%">>, Written(<<"a", "a">>, "aa"), Arrow,
          <<Written(<<"r", "x">>, "rx"), Written(<<"a", "b", "c">>, "none")>>),
     BlankLine}

RECURSIVE Joined(_, _)
Joined(texts, sep) ==
    IF texts = <<>> THEN <<>>
    ELSE IF Len(texts) = 1 THEN texts[1]
    ELSE texts[1] \o sep \o Joined(Tail(texts), sep)

(* The characters of a line written so. *)
Render(line) ==
    line.prefix \o line.name.text \o line.sep \o
    Joined([i \in 1..Len(line.dests) |-> line.dests[i].text], CommaSpace)

(* The characters of an input of these lines, the last with or without a   *)
(* newline after it.                                                       *)
RenderInput(lines, ending) ==
    Joined([i \in 1..Len(lines) |-> Render(lines[i])], Newline) \o ending

(* A call of from_str on an input of 0 to MaxLines lines, well-formed or    *)
(* not. An empty last line is a line of the input only with a newline      *)
(* after it.                                                               *)
InitParse ==
    /\ NoSimulation
    /\ NoArithmetic
    /\ written \in UNION {[1..n -> GoodLines \cup BadLines] : n \in 0..MaxLines}
    /\ \E ending \in {<<>>, Newline} :
          /\ (written # <<>> /\ written[Len(written)] = BlankLine) => ending = Newline
          /\ written = <<>> => ending = <<>>
          /\ input_str = RenderInput(written, ending)
    /\ line_no = 0
    /\ last_module = Running
    /\ building = EmptyMap
    /\ built = Running
    /\ pc = "from_str"

SpecParse == InitParse /\ [][NextParse]_vars

(* A system with one binary counter of presses, flip-flops f0 to f5, and   *)
(* for each of the first n primes p a conjunction of the counter's bits    *)
(* that are set in p. The conjunction first reads all of them High in      *)
(* press p and then sends Low to its flip-flop, an input of the            *)
(* conjunction zz that lists rx.                                           *)
Primes == <<2, 3, 5, 7, 11, 13, 17, 19, 23, 29, 31, 37, 41, 43, 47, 53>>

Tags == <<"a", "b", "c", "d", "e", "f", "g", "h", "i", "j", "k", "l", "m", "n",
          "o", "p">>

Digits == <<"0", "1", "2", "3", "4", "5">>

CounterBits == 6

BitName(i) == "f" \o Digits[i + 1]

GateName(k) == "c" \o Tags[k]

MemberName(k) == "m" \o Tags[k]

BitSet(p, i) == (p \div (2 ^ i)) % 2 = 1

(* The destinations of counter bit i, in the order they iterate in. *)
BitDestinations(n, i) ==
    LET gates == {k \in 1..n : BitSet(Primes[k], i)}
        RECURSIVE Ascending(_)
        Ascending(ks) ==
            IF ks = {} THEN <<>>
            ELSE LET least == CHOOSE k \in ks : \A j \in ks : k <= j
                 IN  <<GateName(least)>> \o Ascending(ks \ {least})
    IN  (IF i + 1 < CounterBits THEN <<BitName(i + 1)>> ELSE <<>>) \o Ascending(gates)

cycle_iter(n) ==
    LET names == {Broadcaster, "zz"} \cup {BitName(i) : i \in 0..(CounterBits - 1)}
                 \cup {GateName(k) : k \in 1..n} \cup {MemberName(k) : k \in 1..n}
    IN  [name \in names |->
            IF name = Broadcaster THEN <<BitName(0)>>
            ELSE IF name = "zz" THEN <<Rx>>
            ELSE IF \E i \in 0..(CounterBits - 1) : name = BitName(i)
                 THEN BitDestinations(n, CHOOSE i \in 0..(CounterBits - 1) : name = BitName(i))
            ELSE IF \E k \in 1..n : name = GateName(k)
                 THEN <<MemberName(CHOOSE k \in 1..n : name = GateName(k))>>
            ELSE <<"zz">>]

cycle_system(n) ==
    LET iter == cycle_iter(n)
    IN  ModuleSystem_from(
            [name \in DOMAIN iter |->
                Module(name,
                       IF name = Broadcaster THEN TypeBroadcaster
                       ELSE IF name = "zz" \/ \E k \in 1..n : name = GateName(k)
                            THEN new_conjunction
                            ELSE TypeFlipFlop,
                       SeqToSet(iter[name]))])

(* part_two on the system of the first 12, 15 or 16 primes, signal_lcm     *)
(* being a u64 in limbs.                                                   *)
InitSeek ==
    /\ \E n \in {12, 15, 16} :
          /\ modules = cycle_system(n)
          /\ dest_iter = cycle_iter(n)
    /\ NoArithmetic
    /\ NoParse
    /\ reference = NoReference
    /\ pc = "part_two"
    /\ times = 0
    /\ presses = 0
    /\ signals = <<>>
    /\ flipflop_state = EmptyMap
    /\ last_sent = EmptyMap
    /\ low = 0
    /\ high = 0
    /\ to_find = {}
    /\ signal_lcm = U64(1)
    /\ answer = Running
    /\ feeder = "none"
    /\ watched = {}
    /\ found = EmptyMap
    /\ senders = <<>>
    /\ last_received = EmptyMap
    /\ processed = NoSignal
    /\ first_low = EmptyMap
    /\ first_rx = 0
    /\ in_phase = TRUE
    /\ heard = FALSE
    /\ trace = <<>>
    /\ earlier = NoCall
    /\ steps = 0

SpecSeek == InitSeek /\ [][NextSeek]_vars

IndexLists == UNION {[1..n -> 1..MaxIndex] : n \in 1..MaxList}

(* A call lcm(arg_a, arg_b), or a fold of lcm from 1 over a list of press  *)
(* indices as the search makes it.                                         *)
InitLcm ==
    /\ NoSimulation
    /\ NoParse
    /\ gcd_a = 0
    /\ gcd_b = 0
    /\ gcd_shift = 0
    /\ result = 0
    /\ folded = 0
    /\ \/ /\ arg_a \in 0..MaxArg
          /\ arg_b \in 0..MaxArg
          /\ indices = <<>>
          /\ pc = "lcm_entry"
       \/ /\ arg_a = 0
          /\ arg_b = 0
          /\ indices \in IndexLists
          /\ pc = "lcm_fold"

SpecLcm == InitLcm /\ [][NextLcm]_vars

example_system ==
    ("broadcaster" :> Module("broadcaster", TypeBroadcaster, {"aa"})) @@
    ("aa" :> Module("aa", TypeFlipFlop, {"iv", "cn"})) @@
    ("iv" :> Module("iv", Conjunction({"aa"}), {"bb"})) @@
    ("bb" :> Module("bb", TypeFlipFlop, {"cn"})) @@
    ("cn" :> Module("cn", Conjunction({"aa", "bb"}), {"op"}))

Orders(set) ==
    {order \in [1..Cardinality(set) -> set] : SeqToSet(order) = set}

RECURSIVE OrdersOver(_, _)
OrdersOver(system, names) ==
    IF names = {} THEN {EmptyMap}
    ELSE LET n == CHOOSE n \in names : TRUE
         IN  {(n :> order) @@ rest : order \in Orders(system[n].destinations),
                                     rest \in OrdersOver(system, names \ {n})}

IterationOrders(system) == OrdersOver(system, DOMAIN system)

InitExample ==
    /\ modules = example_system
    /\ dest_iter \in IterationOrders(example_system)
    /\ times = ExampleTimes
    /\ pc = "count_press"
    /\ Fresh

SpecExample == InitExample /\ [][NextCount]_vars

(* C1: on the five-module example, press_button_times(1000) returns        *)
(* (4250, 2750) whatever the iteration order of each destination set.      *)
ExampleTally ==
    pc = "done" => answer = Tally(ExampleLow, ExampleHigh)

ExampleTallyWitness ==
    /\ pc = "done"
    /\ presses = ExampleTimes
    /\ dest_iter["aa"] = <<"cn", "iv">>
    /\ low = ExampleLow

----------------------------------------------------------------------------
(* The module systems of the bounded family: the broadcaster and up to     *)
(* three other modules, each a FlipFlop or a Conjunction, with             *)
(* destinations among these modules and the undeclared name rx, at most    *)
(* MaxEdges destinations in all.  A line is a parsed Module (its           *)
(* destinations in the order its HashSet iterates them), or Absent.        *)

Ordinary == {"aa", "bb", "cc"}

Targets == Ordinary \cup {Rx}

(* The iteration orders a destination set can have: the sequences without *)
(* repetition over Targets.  A parsed line has at least one destination.   *)
DestSeqs ==
    UNION {{order \in [1..n -> Targets] :
               \A i, j \in 1..n : i # j => order[i] # order[j]} :
           n \in 1..Cardinality(Targets)}

(* The empty sequence stands for a name no line declares. *)
MaybeDestSeqs == DestSeqs \cup {<< >>}

Kinds == {TypeFlipFlop, new_conjunction}

IterOf(ob, o1, o2, o3) ==
    LET all == (Broadcaster :> ob) @@ ("aa" :> o1) @@ ("bb" :> o2) @@ ("cc" :> o3)
    IN  [n \in {m \in DOMAIN all : all[m] # <<>>} |-> all[n]]

Parsed(iter, t1, t2, t3) ==
    LET type == (Broadcaster :> TypeBroadcaster) @@ ("aa" :> t1) @@ ("bb" :> t2) @@
                ("cc" :> t3)
    IN  [n \in DOMAIN iter |-> Module(n, type[n], SeqToSet(iter[n]))]

(* The order in which a breadth-first walk from the broadcaster, taking     *)
(* each destination set in its iteration order, first meets each name.     *)
RECURSIVE Discovered(_, _, _)
Discovered(iter, seen, queue) ==
    IF queue = <<>> THEN seen
    ELSE IF Head(queue) \in SeqToSet(seen)
         THEN Discovered(iter, seen, Tail(queue))
         ELSE Discovered(iter, Append(seen, Head(queue)),
                         Tail(queue) \o (IF Head(queue) \in DOMAIN iter
                                         THEN iter[Head(queue)] ELSE <<>>))

Discovery(iter) == Discovered(iter, <<>>, <<Broadcaster>>)

(* Every declared module can be reached from the broadcaster. *)
Connected(iter) == DOMAIN iter \subseteq SeqToSet(Discovery(iter))

(* The family holds one system of each class of systems that differ only   *)
(* in the names of aa, bb, cc: the one whose walk meets them in this order.*)
NameOrder == <<"aa", "bb", "cc">>

Canonical(iter) ==
    LET met == SelectSeq(Discovery(iter), LAMBDA n : n \in Ordinary)
    IN  \A i \in 1..Len(met) : met[i] = NameOrder[i]

(* modules and dest_iter hold a system of the family; with `connected`,    *)
(* one whose modules can all be reached from the broadcaster.              *)
Family(connected) ==
    \E ob \in MaybeDestSeqs :
      \E o1 \in MaybeDestSeqs :
        /\ Len(ob) + Len(o1) <= MaxEdges
        /\ \E o2 \in MaybeDestSeqs :
             /\ Len(ob) + Len(o1) + Len(o2) <= MaxEdges
             /\ \E o3 \in MaybeDestSeqs :
                  /\ Len(ob) + Len(o1) + Len(o2) + Len(o3) <= MaxEdges
                  /\ dest_iter = IterOf(ob, o1, o2, o3)
                  /\ Canonical(dest_iter)
                  /\ ob # <<>>
                  /\ connected => Connected(dest_iter)
                  /\ \E t1, t2, t3 \in Kinds :
                       /\ o1 = <<>> => t1 = TypeFlipFlop
                       /\ o2 = <<>> => t2 = TypeFlipFlop
                       /\ o3 = <<>> => t3 = TypeFlipFlop
                       /\ modules = ModuleSystem_from(Parsed(dest_iter, t1, t2, t3))

Init ==
    /\ Family(TRUE)
    /\ times \in 0..MaxTimes
    /\ pc = "count_press"
    /\ Fresh

Spec == Init /\ [][NextCount]_vars

(* A flip-flop that lists FanOut undeclared names: every press sends      *)
(* FanOut + 2 signals, and the 1000 presses of part_one send 67000 Low    *)
(* and 65000 High.                                                        *)
FanOut == 130

Letters == <<"a", "b", "c", "d", "e", "f", "g", "h", "i", "j", "k", "l">>

FanName(i) == Letters[(i \div 12) + 1] \o Letters[(i % 12) + 1]

fanout_system ==
    ModuleSystem_from(
        (Broadcaster :> Module(Broadcaster, TypeBroadcaster, {FanName(0)})) @@
        (FanName(0) :> Module(FanName(0), TypeFlipFlop,
                              {FanName(i) : i \in 1..FanOut})))

(* The undeclared names are all alike: one iteration order stands for all. *)
fanout_iter ==
    (Broadcaster :> <<FanName(0)>>) @@
    (FanName(0) :> [i \in 1..FanOut |-> FanName(i)])

InitPartOne ==
    /\ \/ /\ modules = example_system
          /\ dest_iter \in IterationOrders(example_system)
       \/ /\ modules = fanout_system
          /\ dest_iter = fanout_iter
    /\ times = PartOneTimes
    /\ pc = "count_press"
    /\ Fresh

SpecPartOne == InitPartOne /\ [][NextPartOne]_vars

(* Mutant: a further call that finds the flip-flop states and remembered   *)
(* pulses as the call before it left them.                                 *)
RestartKeeping(rebuilt) ==
    /\ pc = "done"
    /\ answer.tag = "Tally"
    /\ earlier.calls < MaxReruns
    /\ earlier' = [calls |-> earlier.calls + 1, rebuilt |-> rebuilt,
                   answer |-> answer, dest_iter |-> dest_iter, trace |-> trace]
    /\ pc' = "count_press"
    /\ presses' = 0
    /\ signals' = <<>>
    /\ low' = 0
    /\ high' = 0
    /\ answer' = Running
    /\ senders' = <<>>
    /\ last_received' = EmptyMap
    /\ processed' = NoSignal
    /\ first_low' = EmptyMap
    /\ first_rx' = 0
    /\ in_phase' = TRUE
    /\ heard' = FALSE
    /\ trace' = <<>>
    /\ steps' = 0
    /\ UNCHANGED <<apart, modules, times, flipflop_state, last_sent, to_find, signal_lcm, feeder, watched, found>>

(* A further call of press_button_times(times) once a call has returned:   *)
(* every local starts afresh; the call that returned is remembered.        *)
Restart(rebuilt) ==
    /\ pc = "done"
    /\ answer.tag = "Tally"
    /\ earlier.calls < MaxReruns
    /\ earlier' = [calls |-> earlier.calls + 1, rebuilt |-> rebuilt,
                   answer |-> answer, dest_iter |-> dest_iter, trace |-> trace]
    /\ pc' = "count_press"
    /\ presses' = 0
    /\ signals' = <<>>
    /\ flipflop_state' = EmptyMap
    /\ last_sent' = EmptyMap
    /\ low' = 0
    /\ high' = 0
    /\ answer' = Running
    /\ senders' = <<>>
    /\ last_received' = EmptyMap
    /\ processed' = NoSignal
    /\ first_low' = EmptyMap
    /\ first_rx' = 0
    /\ in_phase' = TRUE
    /\ heard' = FALSE
    /\ trace' = <<>>
    /\ steps' = 0
    /\ UNCHANGED <<apart, modules, times, to_find, signal_lcm, feeder, watched, found>>

(* The second call is made on the same ModuleSystem: its HashSets iterate  *)
(* as before.                                                              *)
Rerun == Restart(FALSE) /\ dest_iter' = dest_iter

(* The second call is made on a ModuleSystem built anew from the same      *)
(* input: each HashSet has a new RandomState and iterates in any order.    *)
Rebuild == Restart(TRUE) /\ dest_iter' \in IterationOrders(modules)

NextRuns == NextCount \/ Rerun \/ Rebuild

SpecRuns == Init /\ [][NextRuns]_vars

SpecBoth == Init /\ [][NextBoth]_vars

(* A system with two watched branches: a counter ta, tb, tc that sends m3  *)
(* its first Low in press 3 and a chain fa, fb that sends m4 its first Low *)
(* in press 4; the conjunction cj they feed lists rx.                      *)
synthetic_system ==
    ModuleSystem_from(
        (Broadcaster :> Module(Broadcaster, TypeBroadcaster, {"ta", "fa"})) @@
        ("ta" :> Module("ta", TypeFlipFlop, {"tb", "tc"})) @@
        ("tb" :> Module("tb", TypeFlipFlop, {"tc"})) @@
        ("tc" :> Module("tc", new_conjunction, {"ta", "m3"})) @@
        ("m3" :> Module("m3", TypeFlipFlop, {"cj"})) @@
        ("fa" :> Module("fa", TypeFlipFlop, {"fb"})) @@
        ("fb" :> Module("fb", TypeFlipFlop, {"m4"})) @@
        ("m4" :> Module("m4", TypeFlipFlop, {"cj"})) @@
        ("cj" :> Module("cj", new_conjunction, {Rx})))

Synthetic ==
    /\ modules = synthetic_system
    /\ dest_iter \in IterationOrders(synthetic_system)

InitWatch ==
    /\ Family(FALSE) \/ Synthetic
    /\ times = 0
    /\ pc = "part_two"
    /\ Fresh

(* press_button_times as the single thread runs it: a step is taken       *)
(* whenever one is possible.                                               *)
SpecOn == Init /\ [][NextCountOn]_vars /\ WF_vars(NextCountOn)

SpecWatch == InitWatch /\ [][NextWatch]_vars

SpecDirect == InitWatch /\ [][NextDirect]_vars

(* Calls one after another on one ModuleSystem: press_button_times, or the *)
(* search and, when it returns a count, press_button_times for that many   *)
(* presses, and then press_button_times once more.                         *)
InitCalls == Init \/ InitWatch

NextCalls == NextDirect \/ Rerun

SpecCalls == InitCalls /\ [][NextCalls]_vars

(* The search as the single thread runs it: a step is taken whenever one   *)
(* is possible. The systems are those with every module reachable from the *)
(* broadcaster.                                                            *)
InitWatchOn ==
    /\ Family(TRUE)
    /\ times = 0
    /\ pc = "part_two"
    /\ Fresh

SpecWatchOn == InitWatchOn /\ [][NextWatchOn]_vars /\ WF_vars(NextWatchOn)

(* A system whose broadcaster is itself a destination: flip-flop aa sends  *)
(* the broadcaster every pulse it emits, High ones included.               *)
looped_system ==
    ModuleSystem_from(
        (Broadcaster :> Module(Broadcaster, TypeBroadcaster, {"aa", "bb"})) @@
        ("aa" :> Module("aa", TypeFlipFlop, {Broadcaster})) @@
        ("bb" :> Module("bb", TypeFlipFlop, {Rx})))

InitLooped ==
    /\ modules = looped_system
    /\ dest_iter \in IterationOrders(looped_system)
    /\ times \in 0..MaxTimes
    /\ pc = "count_press"
    /\ Fresh

(* Both loops that press the button: press_button_times over the family    *)
(* and the looped system, the search over the connected family.            *)
InitEntry == Init \/ InitLooped \/ InitWatchOn

NextEntry == NextCount \/ NextWatch

SpecEntry == InitEntry /\ [][NextEntry]_vars

(* The systems whose line for the name broadcaster, if there is one, is    *)
(* written with any of the three prefixes: `broadcaster -> ...`,           *)
(* `%broadcaster -> ...` or `&broadcaster -> ...`, beside at most one      *)
(* other module.                                                           *)
EntryKinds == {TypeBroadcaster} \cup Kinds

ParsedNamed(iter, tb, t1) ==
    LET type == (Broadcaster :> tb) @@ ("aa" :> t1)
    IN  [n \in DOMAIN iter |-> Module(n, type[n], SeqToSet(iter[n]))]

InitNamed ==
    /\ \E ob \in MaybeDestSeqs :
         \E o1 \in MaybeDestSeqs :
           /\ Len(ob) + Len(o1) <= MaxEdges
           /\ dest_iter = IterOf(ob, o1, <<>>, <<>>)
           /\ \E tb \in EntryKinds :
                \E t1 \in Kinds :
                  /\ ob = <<>> => tb = TypeBroadcaster
                  /\ o1 = <<>> => t1 = TypeFlipFlop
                  /\ modules = ModuleSystem_from(ParsedNamed(dest_iter, tb, t1))
    /\ times \in 0..MaxTimes
    /\ pc = "count_press"
    /\ Fresh

(* press_button_times over these systems, the family and the looped        *)
(* system.                                                                 *)
InitAnyEntry == InitNamed \/ Init \/ InitLooped

SpecAnyEntry == InitAnyEntry /\ [][NextCount]_vars

----------------------------------------------------------------------------
(* Claims about the press loop, under Spec *)

Inputs(c) == modules[c].module_type.inputs

(* What conjunction c has dequeued from each of its inputs, as a map that  *)
(* process_signal can read in place of last_sent.                          *)
ReceivedBy(c, received) == [i \in Inputs(c) |-> Get(received, <<c, i>>, Low)]

(* C2: a Conjunction that has just processed a pulse emitted Low iff the   *)
(* last pulse it has dequeued from every one of its inputs (the one just   *)
(* processed included, an input never heard from counting as Low) is High, *)
(* and High otherwise.                                                     *)
ConjunctionEmitsByReceived ==
    (pc = "count_drain" /\ IsConjunction(processed.destination)) =>
        processed.emitted =
            IF \A i \in Inputs(processed.destination) :
                   Get(last_received, <<processed.destination, i>>, Low) = High
            THEN Low ELSE High

(* C3: the signals a Conjunction is about to emit for the signal at the    *)
(* front of the queue are those it would emit reading, for each input,     *)
(* only the pulses dequeued to it so far, the front one included: pulses   *)
(* still queued behind the front do not change them.                       *)
ConjunctionIgnoresQueued ==
    (pc = "count_drain" /\ signals # <<>> /\ IsConjunction(Head(signals).destination)) =>
        LET signal == Head(signals)
            c      == signal.destination
            seen   == Insert(last_received, <<c, Head(senders)>>, signal.pulse)
        IN  process_signal(signal, Tail(signals), flipflop_state, last_sent).signals =
            process_signal(signal, Tail(signals), flipflop_state,
                           ReceivedBy(c, seen)).signals

(* C4: a FlipFlop is off before the first press; a Low pulse it processes  *)
(* toggles it and sends High to each destination if it is now on, Low if   *)
(* it is now off; a High pulse it processes changes neither flipflop_state *)
(* nor last_sent and enqueues nothing.                                     *)
FlipFlopToggle ==
    /\ [](presses = 0 => \A f \in DOMAIN modules : ~Get(flipflop_state, f, FALSE))
    /\ [][(pc = "count_drain" /\ signals # <<>> /\ IsFlipFlop(Head(signals).destination)) =>
            LET f    == Head(signals).destination
                was  == Get(flipflop_state, f, FALSE)
                new  == SubSeq(signals', Len(signals), Len(signals'))
                sent == IF was THEN Low ELSE High
            IN  IF Head(signals).pulse = Low
                THEN /\ Get(flipflop_state', f, FALSE) = ~was
                     /\ \A g \in DOMAIN modules \ {f} :
                            Get(flipflop_state', g, FALSE) = Get(flipflop_state, g, FALSE)
                     /\ SubSeq(signals', 1, Len(signals) - 1) = Tail(signals)
                     /\ Len(new) = Cardinality(modules[f].destinations)
                     /\ {new[i].destination : i \in 1..Len(new)} = modules[f].destinations
                     /\ \A i \in 1..Len(new) : new[i].pulse = sent
                     /\ Get(last_sent', f, Low) = sent
                ELSE /\ flipflop_state' = flipflop_state
                     /\ last_sent' = last_sent
                     /\ signals' = Tail(signals)]_vars

(* A flip-flop that has just processed its second Low: off again, Low sent. *)
FlipFlopToggleWitness ==
    /\ pc = "count_drain"
    /\ IsFlipFlop(processed.destination)
    /\ processed.pulse = Low
    /\ processed.emitted = Low
    /\ processed.destination \in DOMAIN flipflop_state
    /\ ~flipflop_state[processed.destination]
    /\ last_sent[processed.destination] = Low

----------------------------------------------------------------------------
(* Claims about part_two and the cycle search, under SpecWatch *)

Searching == pc \in {"find_press", "find_drain"}

Listing == {n \in DOMAIN modules : Rx \in modules[n].destinations}

Compared == pc = "done" /\ answer.tag = "Tally" /\ Cardinality(Listing) = 1

(* C5, as stated: when a single module lists rx and it is a Conjunction,   *)
(* the value part_two returns is the first press of a direct simulation in *)
(* which a Low addressed to rx is dequeued.                                *)
DirectAgrees == Compared => first_rx = times

(* C5, amended: the same, for the systems in which, throughout the direct  *)
(* simulation up to the press part_two names, the conjunction listing rx   *)
(* dequeues a signal in every press that all recorded indices divide, and  *)
(* whenever it dequeues a signal reads each input as High exactly in the   *)
(* presses that the input's recorded index divides.                        *)
DirectAgreesInPhase == (Compared /\ in_phase) => first_rx = times

DirectAgreesInPhaseWitness ==
    /\ Compared
    /\ in_phase
    /\ first_rx = times
    /\ times >= 2
    /\ IsConjunction(feeder)
    /\ \E m \in watched : IsConjunction(m)

(* C6, as stated: the search records press index `presses` for member M    *)
(* exactly when the dequeued signal is a Low addressed to the conjunction  *)
(* feeding rx, sent by M, and M has no index yet.                          *)
WatchRecordsSender ==
    [][(pc = "find_drain" /\ signals # <<>>) =>
          LET signal == Head(signals)
              m      == Head(senders)
          IN  IF /\ signal.pulse = Low
                 /\ signal.destination = feeder
                 /\ m \in watched
                 /\ m \notin DOMAIN found
              THEN /\ found' = Insert(found, m, presses)
                   /\ to_find' = to_find \ {m}
              ELSE /\ found' = found
                   /\ to_find' = to_find]_vars

(* C6, amended: the search records press index `presses` for member M      *)
(* (takes M out of to_find and folds the index into signal_lcm) exactly    *)
(* when the dequeued signal is a Low addressed to M and M has no index     *)
(* yet; the sender and the conjunction feeding rx play no part.            *)
WatchRecordsDestination ==
    [][(pc = "find_drain" /\ signals # <<>>) =>
          LET signal == Head(signals)
              m      == signal.destination
          IN  IF /\ signal.pulse = Low
                 /\ m \in watched
                 /\ m \notin DOMAIN found
              THEN /\ found' = Insert(found, m, presses)
                   /\ to_find' = to_find \ {m}
                   /\ signal_lcm' = lcm(signal_lcm, presses)
              ELSE /\ found' = found
                   /\ to_find' = to_find
                   /\ signal_lcm' = signal_lcm]_vars

(* A member recorded on a Low it received from a module other than itself, *)
(* while the conjunction feeding rx has been sent nothing.                 *)
WatchRecordsDestinationWitness ==
    /\ Searching
    /\ processed.pulse = Low
    /\ processed.destination \in DOMAIN found
    /\ found[processed.destination] = presses
    /\ processed.destination # feeder
    /\ processed.sender \notin watched
    /\ to_find # {}
    /\ \A key \in DOMAIN last_received : key[1] # feeder

(* C7: each member is recorded at most once, at the first press in which a *)
(* Low addressed to it is dequeued; a later such Low changes nothing; the  *)
(* search returns in the step that records the last unresolved member,     *)
(* never with a member unresolved, and starts no press once no member is   *)
(* unresolved.                                                             *)
SearchRecordsOnceAndStops ==
    /\ [](\A m \in DOMAIN found : m \in DOMAIN first_low /\ found[m] = first_low[m])
    /\ [](pc = "done" /\ answer.tag = "Some" => to_find = {})
    /\ [][/\ \A m \in DOMAIN found : m \in DOMAIN found' /\ found'[m] = found[m]
          /\ (pc = "find_drain" /\ signals # <<>> /\ Head(signals).destination \in DOMAIN found)
                => (to_find' = to_find /\ signal_lcm' = signal_lcm /\ found' = found)
          /\ (Searching /\ pc' = "done") <=> (Searching /\ to_find # {} /\ to_find' = {})
          /\ (Searching /\ to_find = {}) => presses' = presses]_vars

(* C8: the value returned by the search is the least common multiple of    *)
(* the first presses in which a Low addressed to each watch-set member was *)
(* dequeued, the watch-set being the inputs of the conjunction that lists  *)
(* rx; with two members first found in presses 3 and 4 it is 12.           *)
Divides(d, n) == n % d = 0

IsLeastCommonMultiple(n, set) ==
    /\ n >= 1
    /\ \A x \in set : Divides(x, n)
    /\ \A k \in 1..(n - 1) : \E x \in set : ~Divides(x, k)

SearchReturnsLcm ==
    (pc = "done" /\ answer.tag = "Some") =>
        /\ IsConjunction(feeder)
        /\ watched = Inputs(feeder)
        /\ DOMAIN found = watched
        /\ \A m \in watched : found[m] = first_low[m]
        /\ IsLeastCommonMultiple(answer.value, {found[m] : m \in watched})
        /\ {found[m] : m \in watched} = {3, 4} => answer.value = 12

SearchReturnsLcmWitness ==
    /\ pc = "done"
    /\ answer = Some(12)
    /\ watched = {"m3", "m4"}
    /\ found["m3"] = 3
    /\ found["m4"] = 4

(* C9: once part_two has found a Conjunction listing rx and entered the    *)
(* search, the search eventually returns (a press cut short by the bounds  *)
(* of the model is not held against it).                                   *)
SearchTerminates ==
    (Searching /\ IsConjunction(feeder)) ~> (pc = "done" \/ OutOfBounds)

(* C10: part_two returns None, at once, whenever rx is not listed by       *)
(* exactly one module that is a Conjunction.                               *)
PartTwoNoneUnlessOneConjunction ==
    (pc # "part_two" /\ ~(Cardinality(Listing) = 1 /\ \A n \in Listing : IsConjunction(n))) =>
        (pc = "done" /\ answer = None)

----------------------------------------------------------------------------
(* Claims about the press loop and the queue *)

(* C11: in press_button_times and in the cycle search the queue is empty   *)
(* when a press's initial signal is enqueued, so that the initial signal   *)
(* is alone in the queue and never has a signal of an earlier press ahead  *)
(* of it.                                                                  *)
QueueDrainedBetweenPresses ==
    /\ [](Len(senders) = Len(signals))
    /\ [](\A i \in 1..Len(senders) : senders[i] = Button => i = 1)
    /\ [](pc \in {"count_press", "find_press"} => signals = <<>>)
    /\ [][presses' = presses + 1 =>
             (signals = <<>> /\ signals' = <<Signal_initial>>)]_vars

(* The second press of a press_button_times that follows a cycle search,   *)
(* begun after a first press that dequeued several signals.                *)
QueueDrainedBetweenPressesWitness ==
    /\ pc = "count_drain"
    /\ answer.tag = "Some"
    /\ presses = 2
    /\ steps = 0
    /\ signals = <<Signal_initial>>
    /\ low + high >= 3

(* C12: every press of press_button_times ends: once its initial signal   *)
(* is queued, the drain loop eventually finds the queue empty (a press     *)
(* whose queue outgrows the bound of the model is not held against it).    *)
PressTerminates ==
    (pc = "count_drain") ~> (pc = "count_press" \/ QueueOutOfBounds)

----------------------------------------------------------------------------
(* Claims about iteration order, under SpecRuns *)

Returned == pc = "done" /\ answer.tag = "Tally"

(* C13: a run of press_button_times on a ModuleSystem built anew from the  *)
(* same input returns the pair the earlier run returned.                   *)
RunsAgree == (Returned /\ earlier.calls > 0 /\ earlier.rebuilt) => answer = earlier.answer

NoConjunction == \A n \in DOMAIN modules : ~IsConjunction(n)

TraceInvariant ==
    (Returned /\ earlier.calls > 0 /\ times >= 1) => trace = earlier.trace

(* C15, amended: the queue is first in, first out. The signals a module    *)
(* sends on one transition are put in the queue together, behind all that  *)
(* is queued already, in the iteration order of its destination set, and   *)
(* the signal dequeued is the one at the head; so the sequence dequeued in *)
(* a press is the same for two runs that use the same orders.              *)
TraceFollowsOrder ==
    /\ [][steps' = steps + 1 =>
             LET signal == Head(signals)
                 rest   == Tail(signals)
                 added  == Len(signals') - Len(rest)
                 order  == IF signal.destination \in DOMAIN modules
                           THEN dest_iter[signal.destination]
                           ELSE <<>>
             IN  /\ added \in {0, Len(order)}
                 /\ SubSeq(signals', 1, Len(rest)) = rest
                 /\ \A i \in 1..added :
                       /\ signals'[Len(rest) + i].destination = order[i]
                       /\ signals'[Len(rest) + i].pulse = signals'[Len(rest) + 1].pulse
                 /\ presses = 1 =>
                       trace' = Append(trace, <<signal.pulse, signal.destination>>)]_vars
    /\ []((Returned /\ earlier.calls > 0 /\ earlier.dest_iter = dest_iter) =>
              trace = earlier.trace)

(* A second run on a system built anew whose sets iterate as before; some  *)
(* module has sent to two destinations in the press.                       *)
TraceFollowsOrderWitness ==
    /\ Returned
    /\ earlier.calls > 0
    /\ earlier.rebuilt
    /\ earlier.dest_iter = dest_iter
    /\ trace = earlier.trace
    /\ Len(trace) >= 5
    /\ \E n \in DOMAIN last_sent : Len(dest_iter[n]) >= 2

----------------------------------------------------------------------------
(* Claims about part_one and press_button_times *)

(* C16: the value part_one returns is the mathematical product of the two  *)
(* tallies of its 1000 presses, also when that product is 2^32 or more.    *)
PartOneExact ==
    (pc = "done" /\ presses = PartOneTimes) => answer = Some(wide_mul(low, high))

----------------------------------------------------------------------------
(* Claims about the construction of a ModuleSystem *)

(* The line that declares module n, as Module::from_str returns it. *)
LineOf(n) ==
    Module(n,
           IF IsConjunction(n) THEN new_conjunction ELSE modules[n].module_type,
           modules[n].destinations)

(* The declarations of the system in every line order, alone or after a    *)
(* line that declares one of the names differently.                        *)
LineOrders ==
    LET orders == {[i \in DOMAIN o |-> LineOf(o[i])] : o \in Orders(DOMAIN modules)}
        stale  == {Module(n, TypeFlipFlop, {d}) : n \in DOMAIN modules \ {Broadcaster},
                                                  d \in DOMAIN modules}
    IN  orders \cup {<<line>> \o lines : line \in stale, lines \in orders}

Listers(c) == {n \in DOMAIN modules : c \in modules[n].destinations}

(* C17: once the system is built, the input set of every Conjunction is    *)
(* the set of declared modules that list it, itself included if it lists   *)
(* itself; no other module has an input set; and the system built is the   *)
(* same for every order of the lines.                                      *)
InputsAreListers ==
    /\ \A c \in DOMAIN modules :
          IF IsConjunction(c)
          THEN modules[c].module_type = Conjunction(Listers(c))
          ELSE modules[c].module_type \in {TypeBroadcaster, TypeFlipFlop}
    /\ (pc = "count_press" /\ presses = 0 /\ times = 0) =>
          \A lines \in LineOrders : ModuleSystem_from_lines(lines) = modules

(* A Conjunction that lists itself and is listed by a flip-flop, next to a *)
(* module that does not list it.                                           *)
InputsAreListersWitness ==
    /\ pc = "count_press"
    /\ presses = 0
    /\ times = 0
    /\ \E c \in DOMAIN modules :
          /\ IsConjunction(c)
          /\ c \in Inputs(c)
          /\ \E f \in Inputs(c) : IsFlipFlop(f)
          /\ Broadcaster \notin Inputs(c)
          /\ Rx \in modules[c].destinations

----------------------------------------------------------------------------
(* Claims about signals to names no line declares *)

(* The names some module lists as a destination and no line declares. *)
Undeclared ==
    UNION {SeqToSet(dest_iter[n]) : n \in DOMAIN dest_iter} \ DOMAIN modules

(* C18: a system whose lines list a destination no line declares is built, *)
(* the name becoming neither a module nor an input of a Conjunction; a     *)
(* signal dequeued for such a name raises the tally of its pulse by one,   *)
(* leaves every flip-flop state and every remembered pulse as it was, and  *)
(* leaves the queue its tail, nothing enqueued.                            *)
UndeclaredIsSink ==
    /\ [](/\ \A c \in DOMAIN modules :
                IsConjunction(c) => Inputs(c) \cap Undeclared = {}
          /\ (pc = "count_press" /\ presses = 0 /\ times = 0) =>
                \A lines \in LineOrders :
                    DOMAIN ModuleSystem_from_lines(lines) \cap Undeclared = {}
          /\ (pc = "count_drain" /\ processed.destination \in Undeclared) =>
                processed.emitted = "none")
    /\ [][(/\ pc = "count_drain"
           /\ signals # <<>>
           /\ Head(signals).destination \notin DOMAIN modules
           /\ steps' # steps)
          => /\ signals' = Tail(signals)
             /\ flipflop_state' = flipflop_state
             /\ last_sent' = last_sent
             /\ modules' = modules
             /\ low' = low + (IF Head(signals).pulse = Low THEN 1 ELSE 0)
             /\ high' = high + (IF Head(signals).pulse = High THEN 1 ELSE 0)]_vars

UndeclaredIsSinkWitness ==
    /\ pc = "count_drain"
    /\ processed.destination \in Undeclared
    /\ processed.destination # Rx
    /\ processed.pulse = High
    /\ signals # <<>>
    /\ high > 0

----------------------------------------------------------------------------
(* Claims about the state of a call, under SpecCalls *)

AnyOn == \E f \in DOMAIN flipflop_state : flipflop_state[f]

AnyHigh == \E m \in DOMAIN last_sent : last_sent[m] = High

(* C19: the button press that opens press k+1 and the return from the      *)
(* drain loop that closes press k leave the flip-flop states and the       *)
(* remembered pulses as they are; a call of press_button_times, after the  *)
(* search or after another call, starts with no flip-flop on, no pulse     *)
(* remembered and nothing counted; no step changes the ModuleSystem; and   *)
(* a call that follows another on the same system returns what it did.     *)
StatePersistsCallsIndependent ==
    /\ [][/\ modules' = modules
          /\ dest_iter' = dest_iter
          /\ (presses' = presses + 1 \/ (pc \in {"count_drain", "find_drain"} /\ pc' # pc)) =>
                /\ flipflop_state' = flipflop_state
                /\ last_sent' = last_sent
          /\ presses' >= presses \/ presses' = 0
          /\ (pc = "done" /\ pc' # "done") =>
                /\ pc' = "count_press"
                /\ presses' = 0
                /\ flipflop_state' = EmptyMap
                /\ last_sent' = EmptyMap
                /\ signals' = <<>>
                /\ low' = 0
                /\ high' = 0]_vars
    /\ []((pc \in {"part_two", "find_press"} /\ presses = 0) =>
             flipflop_state = EmptyMap /\ last_sent = EmptyMap /\ signals = <<>>)
    /\ []((pc = "done" /\ answer.tag = "Tally" /\ earlier.calls > 0) =>
             answer = earlier.answer /\ trace = earlier.trace)

StatePersistsCallsIndependentWitness ==
    /\ pc = "done"
    /\ answer.tag = "Tally"
    /\ earlier.calls > 0
    /\ presses >= 2
    /\ AnyOn
    /\ AnyHigh
    /\ feeder # "none"

----------------------------------------------------------------------------
(* Claims about the value press_button_times returns, under Spec *)

(* The signals of the first press, as dequeued, that carry the pulse. *)
Dequeued(pulse) == Cardinality({i \in 1..Len(trace) : trace[i][1] = pulse})

(* C20: press_button_times(times) returns after exactly times presses,     *)
(* each opened by one initial signal on an empty queue; every dequeued     *)
(* signal, whatever its destination, raises the tally of its pulse by one  *)
(* and no other step changes a tally; the call returns the two tallies,    *)
(* which for one press are the numbers of Low and of High signals          *)
(* dequeued, and for no press are (0, 0).                                  *)
TalliesCountDequeued ==
    /\ [][/\ presses' = presses + 1 =>
                signals = <<>> /\ signals' = <<Signal_initial>> /\ presses < times
          /\ (pc = "count_drain" /\ signals # <<>> /\ pc' = pc) =>
                /\ signals' = Tail(signals) \o SubSeq(signals', Len(signals), Len(signals'))
                /\ low' = low + (IF Head(signals).pulse = Low THEN 1 ELSE 0)
                /\ high' = high + (IF Head(signals).pulse = High THEN 1 ELSE 0)
          /\ (pc # "count_drain" \/ pc' # pc) => low' = low /\ high' = high]_vars
    /\ [](pc = "done" => /\ presses = times
                         /\ answer = Tally(low, high)
                         /\ low >= times
                         /\ times = 0 => answer = Tally(0, 0)
                         /\ times = 1 => /\ low = Dequeued(Low)
                                         /\ high = Dequeued(High))

TalliesCountDequeuedWitness ==
    /\ pc = "done"
    /\ times = 2
    /\ answer = Tally(low, high)
    /\ high > 0
    /\ low > times
    /\ \E i \in 1..Len(trace) : trace[i][2] \notin DOMAIN modules

----------------------------------------------------------------------------
(* Claims about what is enqueued, under SpecEntry *)

(* The signals a step appended behind those that were queued. *)
Appended == SubSeq(signals', Len(signals), Len(signals'))

(* C21: a press enqueues one signal, Low for the broadcaster, on the empty *)
(* queue; every other step that changes the queue dequeues its head and    *)
(* appends only signals for destinations of the module the head was for;   *)
(* and the broadcaster, processing a pulse, appends one signal per         *)
(* destination, each with the pulse it was sent.                           *)
PressEntersAtBroadcaster ==
    [][/\ presses' = presses + 1 =>
            /\ signals = <<>>
            /\ signals' = <<[pulse |-> Low, destination |-> Broadcaster]>>
       /\ (presses' = presses /\ signals' # signals) =>
            /\ signals # <<>>
            /\ signals' = Tail(signals) \o Appended
            /\ Appended # <<>> =>
                  /\ Head(signals).destination \in DOMAIN modules
                  /\ \A i \in 1..Len(Appended) :
                        Appended[i].destination \in
                            modules[Head(signals).destination].destinations
       /\ (/\ pc \in {"count_drain", "find_drain"}
           /\ pc' = pc
           /\ signals # <<>>
           /\ Head(signals).destination = Broadcaster
           /\ Broadcaster \in DOMAIN modules) =>
            /\ signals' = Tail(signals) \o Appended
            /\ Len(Appended) = Cardinality(modules[Broadcaster].destinations)
            /\ {Appended[i].destination : i \in 1..Len(Appended)} =
                   modules[Broadcaster].destinations
            /\ \A i \in 1..Len(Appended) :
                   Appended[i].pulse = Head(signals).pulse]_vars

PressEntersAtBroadcasterWitness ==
    /\ processed.destination = Broadcaster
    /\ processed.pulse = High
    /\ processed.emitted = High
    /\ processed.sender = "aa"
    /\ presses = 2
    /\ Len(signals) >= 2

(* C22: a step in which a module emits appends, behind the signals that    *)
(* were queued and in their order, one signal for each of the module's     *)
(* destinations, all with one pulse; last_sent of the module becomes that  *)
(* pulse and last_sent of every other module is what it was. A step that   *)
(* emits nothing leaves last_sent as it was.                               *)
EmissionAppendsAndRecords ==
    [][(/\ pc \in {"count_drain", "find_drain"}
        /\ pc' = pc
        /\ signals # <<>>) =>
          LET emitter == Head(signals).destination
          IN  /\ signals' = Tail(signals) \o Appended
              /\ IF Appended = <<>>
                 THEN last_sent' = last_sent
                 ELSE /\ Len(Appended) = Cardinality(modules[emitter].destinations)
                      /\ {Appended[i].destination : i \in 1..Len(Appended)} =
                             modules[emitter].destinations
                      /\ \A i \in 1..Len(Appended) :
                             Appended[i].pulse = Appended[1].pulse
                      /\ DOMAIN last_sent' = DOMAIN last_sent \cup {emitter}
                      /\ last_sent'[emitter] = Appended[1].pulse
                      /\ \A m \in DOMAIN last_sent \ {emitter} :
                             last_sent'[m] = last_sent[m]]_vars

EmissionAppendsAndRecordsWitness ==
    /\ processed.emitted = High
    /\ processed.destination \in DOMAIN modules
    /\ Cardinality(modules[processed.destination].destinations) >= 2
    /\ Len(signals) >= 3
    /\ Get(last_sent, processed.destination, Low) = High
    /\ \E m \in DOMAIN last_sent \ {processed.destination, Broadcaster} :
          last_sent[m] = Low

----------------------------------------------------------------------------
(* Claims about the drain loop of the search, under SpecWatch *)

(* C23: the search checks each dequeued signal against the unresolved      *)
(* members before processing it: a Low for an unresolved member is         *)
(* recorded with the current press; if it was the last the search returns  *)
(* with the signal unprocessed, and otherwise the signal is processed as   *)
(* any other (the member emits to each of its destinations, a flip-flop    *)
(* toggles), the loop goes on, and the next press starts only on the       *)
(* drained queue.                                                          *)
FiredSignalStillProcessed ==
    /\ [][(pc = "find_drain" /\ signals # <<>> /\ steps' # steps) =>
            LET signal == Head(signals)
                fires  == signal.pulse = Low /\ signal.destination \in to_find
            IN  /\ fires =>
                      /\ to_find' = to_find \ {signal.destination}
                      /\ found'[signal.destination] = presses
                /\ ~fires => to_find' = to_find /\ found' = found
                /\ (fires /\ to_find' = {}) =>
                      /\ pc' = "done"
                      /\ signals' = Tail(signals)
                      /\ flipflop_state' = flipflop_state
                      /\ last_sent' = last_sent
                /\ (fires /\ to_find' # {}) =>
                      /\ pc' = "find_drain"
                      /\ presses' = presses
                      /\ signals' = Tail(signals) \o Appended
                      /\ Len(Appended) =
                            Cardinality(modules[signal.destination].destinations)
                      /\ last_sent'[signal.destination] = Appended[1].pulse
                      /\ IsFlipFlop(signal.destination) =>
                            flipflop_state'[signal.destination] =
                               ~Get(flipflop_state, signal.destination, FALSE)]_vars
    /\ [][(pc = "find_drain" /\ pc' = "find_press") => signals = <<>>]_vars
    /\ []((pc = "find_press" /\ to_find # {}) => signals = <<>>)

FiredSignalStillProcessedWitness ==
    /\ pc = "find_press"
    /\ presses >= 1
    /\ to_find # {}
    /\ \E m \in DOMAIN found :
          /\ found[m] = presses
          /\ IsFlipFlop(m)
          /\ Get(flipflop_state, m, FALSE)
          /\ Get(last_sent, m, Low) = High

----------------------------------------------------------------------------
(* Claims about gcd, under SpecGcd and SpecGcdOn *)

DividesNat(d, n) == IF d = 0 THEN n = 0 ELSE n % d = 0

CommonDivisors(x, y) == {d \in 1..(x + y) : DividesNat(d, x) /\ DividesNat(d, y)}

(* The greatest common divisor, by its definition; that of 0 and 0 is 0. *)
GreatestCommonDivisor(x, y) ==
    IF x = 0 /\ y = 0 THEN 0
    ELSE CHOOSE d \in CommonDivisors(x, y) : \A e \in CommonDivisors(x, y) : e <= d

(* C24: gcd(a, b) returns the greatest common divisor of a and b: a when   *)
(* b is 0, b when a is 0, 0 for both 0; the value divides both arguments   *)
(* and every common divisor of them divides it.                            *)
GcdIsGreatestCommonDivisor ==
    pc = "gcd_return" =>
        /\ result = GreatestCommonDivisor(arg_a, arg_b)
        /\ result = gcd(arg_a, arg_b)
        /\ arg_b = 0 => result = arg_a
        /\ arg_a = 0 => result = arg_b
        /\ DividesNat(result, arg_a)
        /\ DividesNat(result, arg_b)
        /\ \A d \in 0..MaxArg :
              (DividesNat(d, arg_a) /\ DividesNat(d, arg_b)) => DividesNat(d, result)

GcdIsGreatestCommonDivisorWitness ==
    /\ pc = "gcd_return"
    /\ arg_a = 12
    /\ arg_b = 8
    /\ result = 4
    /\ gcd_shift = 2

(* The factors of two that x and y have in common. *)
RECURSIVE CommonTwos(_, _)
CommonTwos(x, y) ==
    IF x % 2 = 0 /\ y % 2 = 0 THEN 1 + CommonTwos(x \div 2, y \div 2) ELSE 0

(* C29: for positive arguments the loop of gcd is left: each iteration     *)
(* makes the sum of the two working values smaller; and whenever the loop  *)
(* condition is tested both working values are odd and positive, shift is  *)
(* the number of factors of two the arguments have in common, and the      *)
(* greatest common divisor of the working values is that of the arguments  *)
(* with those factors removed.                                             *)
GcdLoopTerminates ==
    /\ [](pc = "gcd_loop" =>
            /\ gcd_a % 2 = 1
            /\ gcd_b % 2 = 1
            /\ gcd_a > 0
            /\ gcd_b > 0
            /\ gcd_shift = CommonTwos(arg_a, arg_b)
            /\ GreatestCommonDivisor(gcd_a, gcd_b) * 2 ^ gcd_shift =
                   GreatestCommonDivisor(arg_a, arg_b))
    /\ [][(pc = "gcd_loop" /\ pc' = "gcd_loop") =>
             gcd_a' + gcd_b' < gcd_a + gcd_b]_vars
    /\ (pc = "gcd_entry" /\ arg_a > 0 /\ arg_b > 0) ~> (pc = "gcd_loop")
    /\ (pc = "gcd_loop") ~> (pc = "gcd_return")

GcdLoopTerminatesWitness ==
    /\ pc = "gcd_loop"
    /\ arg_a = 36
    /\ arg_b = 30
    /\ gcd_a = 9
    /\ gcd_b = 3
    /\ gcd_shift = 1

----------------------------------------------------------------------------
(* Claims about lcm, under SpecLcm *)

(* C28: lcm(a, b) is the least common multiple of a and b when both are    *)
(* positive and 0 when either is 0, and its division is never by zero;     *)
(* lcm folded from 1 over a list of positive indices is the least common   *)
(* multiple of the indices, after each index that of those folded so far,  *)
(* whatever the order of the list.                                         *)
LcmIsLeastCommonMultiple ==
    /\ pc # "panic"
    /\ pc = "lcm_return" =>
          /\ (arg_a = 0 \/ arg_b = 0) => result = 0
          /\ (arg_a > 0 /\ arg_b > 0) => IsLeastCommonMultiple(result, {arg_a, arg_b})
    /\ (pc = "lcm_fold" /\ folded > 0) =>
          IsLeastCommonMultiple(signal_lcm, {indices[i] : i \in 1..folded})
    /\ pc = "lcm_folded" =>
          /\ IsLeastCommonMultiple(result, SeqToSet(indices))
          /\ \A other \in IndexLists :
                SeqToSet(other) = SeqToSet(indices) =>
                    IsLeastCommonMultiple(result, SeqToSet(other))

LcmIsLeastCommonMultipleWitness ==
    /\ pc = "lcm_folded"
    /\ indices = <<6, 4, 3>>
    /\ result = 12

----------------------------------------------------------------------------
(* Claims about parsing, under SpecParse *)

GoodName(name) == name.text = BroadcasterStr \/ Len(name.text) = 2

(* A line is malformed if it has no " -> ", if what precedes the name is   *)
(* neither % nor & and the line does not begin with the bare word          *)
(* broadcaster, or if a name in it is neither broadcaster nor two          *)
(* characters.                                                             *)
Malformed(line) ==
    \/ line.sep # Arrow
    \/ ~(\/ line.prefix \in {<<"%">>, <<"&">>}
         \/ line.prefix = <<>> /\ line.name.text = BroadcasterStr)
    \/ ~GoodName(line.name)
    \/ line.dests = <<>>
    \/ \E i \in 1..Len(line.dests) : ~GoodName(line.dests[i])

(* C25: from_str returns Err, and no system, as soon as it meets a         *)
(* malformed line, whatever well-formed lines came before it and whatever  *)
(* lines follow; part_one and part_two then return None.                   *)
MalformedLineFails ==
    /\ (\E i \in 1..line_no : Malformed(written[i])) =>
          /\ built = ParseModuleError
          /\ Malformed(written[line_no])
          /\ \A i \in 1..(line_no - 1) : ~Malformed(written[i])
    /\ (pc \in {"from_str_return", "done"} /\ \E i \in 1..Len(written) : Malformed(written[i])) =>
          built = ParseModuleError
    /\ (pc = "done" /\ built = ParseModuleError) => answer = None
    /\ (pc # "done") => answer = Running

MalformedLineFailsWitness ==
    /\ pc = "done"
    /\ answer = None
    /\ Len(written) = 3
    /\ line_no = 3
    /\ Cardinality(DOMAIN building) = 2
    /\ written[3].name.text = <<"a", "b", "c">>

(* The Module a well-formed line stands for. *)
Meant(line) ==
    Module(line.name.name,
           IF line.prefix = <<"%">> THEN [tag |-> "FlipFlop"]
           ELSE IF line.prefix = <<"&">> THEN [tag |-> "Conjunction", inputs |-> {}]
           ELSE [tag |-> "Broadcaster"],
           {line.dests[i].name : i \in 1..Len(line.dests)})

(* C26: for a well-formed line Module::from_str returns the module the     *)
(* line stands for: FlipFlop after %, Conjunction with no inputs after &,  *)
(* Broadcaster named Broadcaster for the bare word; the name Broadcaster   *)
(* for broadcaster and the two characters for any other name; and as       *)
(* destinations the set of the names listed.                               *)
LineParsesAsWritten ==
    (line_no >= 1 /\ ~Malformed(written[line_no])) => last_module = Ok(Meant(written[line_no]))

LineParsesAsWrittenWitness ==
    /\ line_no = 2
    /\ written[1] = Line(<<>>, Written(BroadcasterStr, Broadcaster), Arrow,
                         <<Written(<<"a", "a">>, "aa")>>)
    /\ written[2] = Line(<<"&">>, Written(<<"r", "x">>, "rx"), Arrow,
                         <<Written(BroadcasterStr, Broadcaster), Written(<<"r", "x">>, "rx")>>)
    /\ last_module = Ok(Module("rx", [tag |-> "Conjunction", inputs |-> {}],
                               {"broadcaster", "rx"}))

----------------------------------------------------------------------------
(* Claims about the two ways to remember pulses, under SpecBoth *)

(* C27: press_button_times, which remembers for each module the pulse it   *)
(* last sent, returns the pair returned by the simulator that remembers    *)
(* for each Conjunction the pulse it last dequeued from each input.        *)
LastSentRefinesLastReceived ==
    pc = "done" => answer = reference.answer

----------------------------------------------------------------------------
(* Claims about the width of the running LCM, under SpecSeek *)

(* C30: the running LCM is exact: at every moment of the search it is a    *)
(* multiple of every press index folded into it, no product having been    *)
(* cut to 64 bits, and the search returns such a value.                    *)
RunningLcmExact ==
    /\ \A m \in DOMAIN found : mod64(signal_lcm, found[m]) = 0
    /\ pc = "done" =>
          /\ answer.tag = "Some"
          /\ \A m \in DOMAIN found : mod64(answer.value, found[m]) = 0

----------------------------------------------------------------------------
(* Claims about the search beside press_button_times, under SpecWatch *)

(* C31: the search only observes: whenever it stands between two presses   *)
(* without having returned, after k presses, its flip-flop states and the  *)
(* pulses its modules last sent are those press_button_times has after k   *)
(* presses with the same iteration orders.                                 *)
WatchOnlyObserves ==
    (pc = "find_press" /\ answer = Running) =>
        LET count == pressed(presses)
        IN  /\ count.signals = <<>>
            /\ flipflop_state = count.flipflop_state
            /\ last_sent = count.last_sent

WatchOnlyObservesWitness ==
    /\ modules = synthetic_system
    /\ pc = "find_press"
    /\ answer = Running
    /\ presses = 2
    /\ Get(flipflop_state, "tb", FALSE)
    /\ Get(last_sent, "tb", Low) = High
    /\ pressed(2).low > 0

(* C32: when the Conjunction that lists rx has no inputs, the search       *)
(* returns 1 without a press.                                              *)
EmptyWatchReturnsAtOnce ==
    (pc # "part_two" /\ IsConjunction(feeder) /\ watched = {}) =>
        /\ presses = 0
        /\ pc = "done" => answer = Some(1)

----------------------------------------------------------------------------
(* Claims about the flip-flops, under SpecEntry *)

(* C33: a FlipFlop with a record of what it last sent sent High exactly    *)
(* when it is on; one without a record is off; and a FlipFlop gets its     *)
(* first record only in a step that dequeues a Low addressed to it.        *)
FlipFlopRecordMatchesState ==
    /\ [](\A n \in DOMAIN modules :
            IsFlipFlop(n) =>
                /\ n \in DOMAIN last_sent =>
                       ((last_sent[n] = High) <=> Get(flipflop_state, n, FALSE))
                /\ n \notin DOMAIN last_sent => n \notin DOMAIN flipflop_state)
    /\ [][\A n \in DOMAIN modules :
              (IsFlipFlop(n) /\ n \notin DOMAIN last_sent /\ n \in DOMAIN last_sent') =>
                  (processed'.destination = n /\ processed'.pulse = Low)]_vars

FlipFlopRecordMatchesStateWitness ==
    /\ \E n \in DOMAIN modules :
          /\ IsFlipFlop(n)
          /\ n \in DOMAIN last_sent
          /\ last_sent[n] = Low
          /\ ~Get(flipflop_state, n, FALSE)
    /\ \E n \in DOMAIN modules :
          /\ IsFlipFlop(n)
          /\ Get(last_sent, n, Low) = High
          /\ Get(flipflop_state, n, FALSE)
    /\ \E n \in DOMAIN modules :
          /\ IsFlipFlop(n)
          /\ n \notin DOMAIN last_sent
          /\ processed.destination = n
          /\ processed.pulse = High

----------------------------------------------------------------------------
(* Claims about the bookkeeping of the search, under SpecSeek *)

(* C34: throughout the search the unresolved members are the watched       *)
(* modules without a recorded press, the running LCM is at least 1 and a   *)
(* multiple of every recorded press, and the value returned is a multiple  *)
(* of the press in which the search returns.                               *)
SearchKeepsLcmOfResolved ==
    pc # "part_two" =>
        /\ to_find \subseteq watched
        /\ to_find = watched \ DOMAIN found
        /\ ~IsZero64(signal_lcm)
        /\ \A m \in DOMAIN found : mod64(signal_lcm, found[m]) = 0
        /\ (pc = "done" /\ answer.tag = "Some") => mod64(answer.value, presses) = 0

----------------------------------------------------------------------------
(* Claims about the entry of a press, under SpecAnyEntry *)

(* The modules whose type is Broadcaster. *)
Broadcasters == {n \in DOMAIN modules : IsBroadcaster(n)}

(* C35, as stated: press_button_times(n) returns low of at least           *)
(* n * (1 + number of destinations of the broadcaster module), and (n, 0)  *)
(* for a system without a broadcaster module.                              *)
LowBoundForEveryGraph ==
    pc = "done" =>
        /\ \A n \in Broadcasters :
              answer.low >= times * (1 + Cardinality(modules[n].destinations))
        /\ Broadcasters = {} => answer = Tally(times, 0)

(* C35, amended: the bound holds when the module named broadcaster has the *)
(* type Broadcaster, and (n, 0) is returned when no module has that name.  *)
LowBoundForDeclaredEntry ==
    pc = "done" =>
        /\ IsBroadcaster(Broadcaster) =>
              answer.low >= times * (1 + Cardinality(modules[Broadcaster].destinations))
        /\ Broadcaster \notin DOMAIN modules => answer = Tally(times, 0)
        /\ answer.low >= times

LowBoundForDeclaredEntryWitness ==
    /\ pc = "done"
    /\ times = 2
    /\ IsBroadcaster(Broadcaster)
    /\ Cardinality(modules[Broadcaster].destinations) = 2
    /\ answer.low > times * 3
    /\ answer.high > 0

============================================================================
